---- MODULE Spec2Model ----
(***************************************************************************)
(* Shot-Clock: the acquisition pipeline of the NBA shot-clock dashboard.   *)
(*                                                                         *)
(*  - data/scrape_shotclock_data.py: main() walks the six shot-clock       *)
(*    ranges; for each it runs scrape_with_selenium (four in-browser       *)
(*    strategies) and, when that yields nothing, scrape_with_requests_api. *)
(*  - src/nba_stats.py: fetch_shot_clock_breakdown requests one result set *)
(*    per (general range, shot-clock range) pair.                          *)
(*                                                                         *)
(* A data frame is abstracted to the attributes the code inspects: its row *)
(* count, its named and "Unnamed" column counts, whether it has an         *)
(* identifying column, whether it has day-of-week columns, the marker      *)
(* words its cells contain, the season type of the URL it came from, and   *)
(* the SHOT_CLOCK_RANGE tag.  Frames stay within pandas' display limits    *)
(* (60 rows, 20 columns), so str(df) shows every cell.                     *)
(***************************************************************************)
EXTENDS Integers, Sequences, FiniteSets, TLC

(***************************************************************************)
(* Program constants                                                       *)
(***************************************************************************)
SHOT_CLOCK_RANGES == <<"24-22", "22-18", "18-15", "15-7", "7-4", "4-0">>

NumRanges == Len(SHOT_CLOCK_RANGES)

\* "len(rows) > 10": the row threshold of strategies 1, 2 and 4
MinRows == 10

\* "len(df.columns) > 3" in the rendered-table strategy
MinColsTable == 3

\* "len(df.columns) > 5" in the BeautifulSoup sweep
MinColsSoup == 5

\* "api_responses[:3]": the number of captured responses examined
MaxExamined == 3

(***************************************************************************)
(* Bounds of the model                                                     *)
(***************************************************************************)
\* tables on one rendered page
MaxTables == 2

\* captured network responses in one performance log
MaxResponses == 2

\* embedded-script matches on one page
MaxBlobs == 2

(***************************************************************************)
(* Frames                                                                  *)
(***************************************************************************)
None ==
  [kind |-> "none", rows |-> 0, cols |-> 0, unnamed |-> 0, idcol |-> FALSE,
   daycol |-> FALSE, text |-> {}, url |-> "", tag |-> ""]

\* an exception that leaves a function (never a value the code produces)
Raised ==
  [kind |-> "raised", rows |-> 0, cols |-> 0, unnamed |-> 0, idcol |-> FALSE,
   daycol |-> FALSE, text |-> {}, url |-> "", tag |-> ""]

Frame(r, c, u, id, day, tx) ==
  [kind |-> "frame", rows |-> r, cols |-> c, unnamed |-> u, idcol |-> id,
   daycol |-> day, text |-> tx, url |-> "", tag |-> ""]

\* the columns of a frame; the SHOT_CLOCK_RANGE tag is one more column
NumCols(f) == f.cols + f.unnamed + (IF f.tag = "" THEN 0 ELSE 1)

\* DataFrame.empty: no rows or no columns
Empty(f) == f.rows = 0 \/ NumCols(f) = 0

\* df.loc[:, ~df.columns.str.contains('^Unnamed')]
StripUnnamed(f) == [f EXCEPT !.unnamed = 0]

\* df['SHOT_CLOCK_RANGE'] = shot_clock_range (url: the source the rows came from)
Tag(f, rng, url) == [f EXCEPT !.tag = rng, !.url = url]

(***************************************************************************)
(* The upstream: what the site can serve in one run.  A run meets one kind *)
(* of anomaly next to well-formed data and plain failures:                 *)
(*   "cupurl"      URLs that show the Cup season type                      *)
(*   "nbacup"      payloads whose cells read "NBA Cup"                     *)
(*   "cupregular"  payloads whose cells hold "cup", "nba" and "regular"    *)
(*   "short"       tables and payloads with few rows and columns           *)
(*   "columns"     tables with Unnamed or day-of-week columns              *)
(***************************************************************************)
Upstreams == {"cupurl", "nbacup", "cupregular", "short", "columns"}

GoodFrame == Frame(MinRows + 1, MinColsSoup + 1, 0, TRUE, FALSE, {})

EmptyFrame == Frame(0, MinColsSoup + 1, 0, TRUE, FALSE, {})

\* cells hold "NBA Cup"
NbaCupFrame ==
  Frame(MinRows + 1, MinColsSoup + 1, 0, TRUE, FALSE, {"cup", "nba", "nba cup"})

\* cells hold "cup", "nba" and "regular", never "nba cup" together
CupRegularFrame ==
  Frame(MinRows + 1, MinColsSoup + 1, 0, TRUE, FALSE, {"cup", "nba", "regular"})

\* one row, one column, no identifying column
TinyFrame == Frame(1, 1, 0, FALSE, FALSE, {})

\* exactly MinRows rows, one column more than MinColsTable
TenRowFrame == Frame(MinRows, MinColsTable + 1, 0, TRUE, FALSE, {})

\* half of the columns are "Unnamed: n" index columns
UnnamedFrame == Frame(MinRows + 1, MinColsTable, MinColsTable, TRUE, FALSE, {})

\* a date picker: day-of-week columns
CalendarFrame == Frame(MinRows - 4, MinColsSoup + 2, 0, FALSE, TRUE, {})

\* frames that rendered tables parse to
TableFrames(w) ==
  CASE w = "cupurl"     -> { GoodFrame, EmptyFrame }
    [] w = "nbacup"     -> { GoodFrame, NbaCupFrame }
    [] w = "cupregular" -> { GoodFrame, CupRegularFrame }
    [] w = "short"      -> { GoodFrame, TenRowFrame, EmptyFrame }
    [] w = "columns"    -> { GoodFrame, UnnamedFrame, CalendarFrame }

\* frames that JSON result sets hold
JsonFrames(w) ==
  CASE w = "cupurl"     -> { GoodFrame, EmptyFrame }
    [] w = "nbacup"     -> { GoodFrame, NbaCupFrame }
    [] w = "cupregular" -> { GoodFrame, CupRegularFrame }
    [] w = "short"      -> { GoodFrame, TinyFrame, EmptyFrame }
    [] w = "columns"    -> { GoodFrame }

\* season type shown by the URL the browser ended on
PageUrls(w) == IF w = "cupurl" THEN {"regular", "cup"} ELSE {"regular"}

\* JSON payloads: not JSON at all, no result sets, result set without
\* headers/rowSet, or a result set holding a frame
Body(k, f) == [kind |-> k, frame |-> f]

Bodies(w) ==
  { Body("notjson", None), Body("noresultsets", None), Body("noheaders", None) }
    \cup { Body("json", f) : f \in JsonFrames(w) }

\* HTTP outcomes of requests.get: an exception (timeout, connection error) or
\* a status with a body
HttpResponses(w) ==
  { [exc |-> TRUE, status |-> 0, body |-> Body("notjson", None)] }
    \cup { [exc |-> FALSE, status |-> 200, body |-> b] : b \in Bodies(w) }
    \cup { [exc |-> FALSE, status |-> 500, body |-> Body("notjson", None)],
           [exc |-> FALSE, status |-> 404, body |-> Body("json", GoodFrame)] }

\* rendered tables: the token classes of the table text ("stat": player, fgm,
\* fga, fg%, 3pm, 3pa, pts; "rebast": reb, ast; "sunmon": sun, mon; "day": tue
\* to sat; "month": the month names), its <tr> count, and the frame
\* pd.read_html makes of it
Table(tx, f) == [text |-> tx, trs |-> f.rows + 1, df |-> f]

TableText(f) ==
  (IF f.idcol THEN {"stat"} ELSE {}) \cup (IF f.daycol THEN {"sunmon"} ELSE {})

\* in "columns" also a stats table whose player names contain 'mon'
Tables(w) ==
  { Table(TableText(f), f) : f \in TableFrames(w) }
    \cup (IF w = "columns" THEN { Table({"stat", "sunmon"}, GoodFrame) } ELSE {})

SeqsUpTo(S, n) == UNION { [1..k -> S] : k \in 0..n }

Pages(w) == SeqsUpTo(Tables(w), MaxTables)

\* captured responses: what the URL says of the season type (a Cup marker, the
\* SeasonType parameter, the word "regular"), a timestamp, a body
ApiUrl(cup, st, reg) == [cup |-> cup, seasonType |-> st, regular |-> reg]

ApiResponse(u, t, b) == [url |-> u, timestamp |-> t, body |-> b]

ApiUrls(w) ==
  IF w = "cupurl"
  THEN { ApiUrl(FALSE, "regular", TRUE), ApiUrl(TRUE, "other", FALSE),
         ApiUrl(FALSE, "absent", FALSE) }
  ELSE { ApiUrl(FALSE, "regular", TRUE) }

ApiBodies(w) ==
  CASE w = "cupurl"     -> { Body("json", GoodFrame) }
    [] w = "nbacup"     -> { Body("json", GoodFrame), Body("json", NbaCupFrame) }
    [] w = "cupregular" -> { Body("json", GoodFrame), Body("json", CupRegularFrame) }
    [] w = "short"      -> { Body("json", GoodFrame), Body("json", TenRowFrame),
                             Body("noheaders", None) }
    [] w = "columns"    -> { Body("json", GoodFrame), Body("notjson", None) }

ApiResponses(w) ==
  { ApiResponse(u, t, b) : u \in ApiUrls(w), t \in 1..2, b \in ApiBodies(w) }

Logs(w) == SeqsUpTo(ApiResponses(w), MaxResponses)

\* embedded-script matches, in the order of the patterns that found them
Blobs(w) ==
  SeqsUpTo({ Body("notjson", None), Body("noresultsets", None) }
             \cup { Body("json", f) : f \in JsonFrames(w) }, MaxBlobs)

(***************************************************************************)
(* Helpers                                                                 *)
(***************************************************************************)
\* the first result of a sequence that is a frame, None when there is none
FirstFrame(results) ==
  IF \E i \in 1..Len(results) : results[i] # None
  THEN results[CHOOSE i \in 1..Len(results) :
                 /\ results[i] # None
                 /\ \A j \in 1..(i - 1) : results[j] = None]
  ELSE None

RemoveAt(s, i) == SubSeq(s, 1, i - 1) \o SubSeq(s, i + 1, Len(s))

\* api_responses.sort(key=lambda x: x['timestamp'], reverse=True): stable
RECURSIVE SortByTimestampDesc(_)
SortByTimestampDesc(s) ==
  IF s = <<>> THEN <<>>
  ELSE LET i == CHOOSE i \in 1..Len(s) :
                  /\ \A j \in 1..Len(s) : s[j].timestamp <= s[i].timestamp
                  /\ \A j \in 1..(i - 1) : s[j].timestamp < s[i].timestamp
       IN  <<s[i]>> \o SortByTimestampDesc(RemoveAt(s, i))

Min(a, b) == IF a < b THEN a ELSE b

(***************************************************************************)
(* Strategy 1: the rendered table (scrape_with_selenium, lines 348-463)    *)
(***************************************************************************)
\* the first table, in page order, that looks like the stats table
QualifiesRendered(t) ==
  /\ t.text \cap {"stat", "rebast"} # {}
  /\ t.text \cap {"sunmon", "day", "month"} = {}
  /\ t.trs > MinRows

\* the fallback: the largest table without 'sun' and 'mon' (sorted() is stable,
\* so of equally large tables the earlier one comes first)
LargestNonCalendar(page) ==
  LET ok == { i \in 1..Len(page) : "sunmon" \notin page[i].text }
  IN  IF ok = {} THEN 0
      ELSE CHOOSE i \in ok :
             \A j \in ok : \/ page[j].trs < page[i].trs
                           \/ (page[j].trs = page[i].trs /\ i <= j)

SelectStatsTable(page) ==
  LET q == { i \in 1..Len(page) : QualifiesRendered(page[i]) }
  IN  IF q # {} THEN CHOOSE i \in q : \A j \in q : i <= j
      ELSE LargestNonCalendar(page)

\* lines 442-459: the checks on the parsed frame
AcceptRendered(f) ==
  /\ ~f.daycol
  /\ f.rows > 0
  /\ f.cols > MinColsTable
  /\ f.idcol

Strategy1Body(page, rng, url) ==
  LET i == SelectStatsTable(page)
  IN  IF i = 0 THEN None
      ELSE LET f == StripUnnamed(page[i].df)
           IN  IF AcceptRendered(f) THEN Tag(f, rng, url) ELSE None

\* exc: an exception raised inside the strategy, caught at line 460
Strategy1(page, exc, rng, url) ==
  IF exc THEN None ELSE Strategy1Body(page, rng, url)

(***************************************************************************)
(* Strategy 2: captured network responses (lines 465-576)                  *)
(***************************************************************************)
UrlSkippedCupOnly(u) == u.cup

\* lines 501-540: the season-type reading of the response URL
UrlSkipped(u) ==
  \/ u.cup
  \/ IF u.seasonType # "absent" THEN u.seasonType # "regular" ELSE ~u.regular

\* lines 553-564: 'cup' in df_str and 'nba' in df_str
PayloadHasCup(f) == "cup" \in f.text /\ "nba" \in f.text

\* lines 498-572: one response; an exception inside it skips to the next
ExamineResponse(r, rng) ==
  IF UrlSkipped(r.url) THEN None
  ELSE IF r.body.kind # "json" THEN None
  ELSE IF ~(r.body.frame.rows > MinRows) THEN None
  ELSE IF PayloadHasCup(r.body.frame) THEN None
  ELSE Tag(r.body.frame, rng, "regular")

Strategy2Body(log, rng) ==
  LET sorted == SortByTimestampDesc(log)
      recent == SubSeq(sorted, 1, Min(Len(sorted), MaxExamined))
  IN  FirstFrame([i \in 1..Len(recent) |-> ExamineResponse(recent[i], rng)])

\* the responses whose body the loop of lines 497-572 reads (line 543), in
\* the order it reads them: those of the examined ones that pass the URL
\* checks, up to the one that returns the frame
BodiesRead(log, rng) ==
  LET sorted == SortByTimestampDesc(log)
      recent == SubSeq(sorted, 1, Min(Len(sorted), MaxExamined))
      reached(i) == \A j \in 1..(i - 1) : ExamineResponse(recent[j], rng) = None
      read == { i \in 1..Len(recent) : reached(i) /\ ~UrlSkipped(recent[i].url) }
  IN [p \in 1..Cardinality(read) |->
        recent[CHOOSE i \in read : Cardinality({ j \in read : j < i }) = p - 1]]

\* the responses of one performance log that lines 474-487 keep: with
\* SeasonType=Regular+Season (11 rows, 10 rows), with a Cup marker, without
\* a season type (with and without 'regular' elsewhere in the URL), and
\* with another SeasonType
CapturedResponses ==
  { ApiResponse(ApiUrl(FALSE, "regular", TRUE), 1, Body("json", GoodFrame)),
    ApiResponse(ApiUrl(FALSE, "regular", TRUE), 2, Body("json", TenRowFrame)),
    ApiResponse(ApiUrl(TRUE, "other", FALSE), 2, Body("json", GoodFrame)),
    ApiResponse(ApiUrl(FALSE, "absent", FALSE), 3, Body("json", GoodFrame)),
    ApiResponse(ApiUrl(FALSE, "absent", TRUE), 1, Body("json", GoodFrame)),
    ApiResponse(ApiUrl(FALSE, "other", TRUE), 3, Body("json", GoodFrame)) }

\* responses in one log
MaxLog == 4

\* mutant: no except clause around the strategy
Strategy2Uncaught(log, exc, rng) ==
  IF exc THEN Raised ELSE Strategy2Body(log, rng)

\* exc: driver.get_log failing, caught at line 573
Strategy2(log, exc, rng) ==
  IF exc THEN None ELSE Strategy2Body(log, rng)

(***************************************************************************)
(* Strategy 3: JSON embedded in the page source (lines 578-617)            *)
(***************************************************************************)
\* lines 597-615: one pattern match; only "if rows:" guards the frame
ExtractBlob(b, rng, url) ==
  IF b.kind # "json" THEN None
  ELSE IF ~(b.frame.rows > 0) THEN None
  ELSE Tag(b.frame, rng, url)

Strategy3Body(blobs, rng, url) ==
  FirstFrame([i \in 1..Len(blobs) |-> ExtractBlob(blobs[i], rng, url)])

\* exc: driver.page_source failing, caught at line 616
Strategy3(blobs, exc, rng, url) ==
  IF exc THEN None ELSE Strategy3Body(blobs, rng, url)

(***************************************************************************)
(* Strategy 4: the BeautifulSoup sweep (lines 619-672)                     *)
(***************************************************************************)
\* lines 631-668: the column count is taken before the Unnamed columns go
AcceptSoup(t) ==
  /\ t.text \cap {"sunmon", "day"} = {}
  /\ "stat" \in t.text
  /\ ~t.df.daycol
  /\ t.df.cols + t.df.unnamed > MinColsSoup
  /\ t.df.rows > MinRows
  /\ t.df.idcol

SweepTable(t, rng, url) ==
  IF AcceptSoup(t) THEN Tag(StripUnnamed(t.df), rng, url) ELSE None

Strategy4Body(page, rng, url) ==
  FirstFrame([i \in 1..Len(page) |-> SweepTable(page[i], rng, url)])

\* exc: BeautifulSoup or page_source failing, caught at line 671
Strategy4(page, exc, rng, url) ==
  IF exc THEN None ELSE Strategy4Body(page, rng, url)

\* the table of the page the sweep returns its frame from, 0 when none
Strategy4Source(page) ==
  IF \E i \in 1..Len(page) : AcceptSoup(page[i])
  THEN CHOOSE i \in 1..Len(page) :
         AcceptSoup(page[i]) /\ \A j \in 1..(i - 1) : ~AcceptSoup(page[j])
  ELSE 0

(***************************************************************************)
(* Pages for the table strategies alone: stats tables of several sizes,    *)
(* one of them with a month name in its text, widgets and navigation       *)
(***************************************************************************)
\* the stats table as it is first shown and with every "load more" row,
\* the stats table of a range in which few players shot, a stats table with
\* a month name, a date picker, and a table of links without a stat column
RenderedTables ==
  { Table({"stat"}, GoodFrame),
    Table({"stat"}, Frame(MinRows + 5, MinColsSoup + 1, 0, TRUE, FALSE, {})),
    Table({"stat"}, Frame(MinRows - 5, MinColsSoup + 1, 0, TRUE, FALSE, {})),
    Table({"stat", "month"}, GoodFrame),
    Table({"sunmon"}, CalendarFrame),
    Table({}, Frame(MinRows + 6, MinColsSoup + 1, 0, FALSE, FALSE, {})) }

(***************************************************************************)
(* Strategy 5: the direct API call                                         *)
(***************************************************************************)
\* try_alternative_api_endpoint (lines 782-821) makes no request
try_alternative_api_endpoint(rng) == None

\* lines 752-768: the 200 branch
ApiFrame(body, rng) ==
  IF body.kind # "json" THEN None
  ELSE IF ~(body.frame.rows > 0) THEN None
  ELSE Tag(body.frame, rng, "regular")

\* mutant: no try/except around the request and the parsing of its payload
scrape_with_requests_api_unguarded(resp, rng) ==
  IF resp.exc THEN Raised
  ELSE IF resp.status # 200 THEN try_alternative_api_endpoint(rng)
  ELSE IF resp.body.kind \in {"notjson", "noheaders"} THEN Raised
  ELSE ApiFrame(resp.body, rng)

\* scrape_with_requests_api (lines 688-779); a body that is not JSON or has no
\* headers/rowSet raises inside the try and reaches the except at line 774
scrape_with_requests_api(resp, rng) ==
  IF resp.exc THEN try_alternative_api_endpoint(rng)
  ELSE IF resp.status # 200 THEN try_alternative_api_endpoint(rng)
  ELSE IF resp.body.kind \in {"notjson", "noheaders"} THEN try_alternative_api_endpoint(rng)
  ELSE ApiFrame(resp.body, rng)

\* whether the call ends in the except clause of line 774
ApiRaisesInside(resp) ==
  resp.exc \/ (resp.status = 200 /\ resp.body.kind \in {"notjson", "noheaders"})

\* get_nba_api_data (lines 56-101): the frame is returned without a look at rowSet
get_nba_api_data(resp, rng) ==
  IF resp.exc THEN None
  ELSE IF resp.status # 200 THEN None
  ELSE IF resp.body.kind # "json" THEN None
  ELSE Tag(resp.body.frame, rng, "regular")

(***************************************************************************)
(* Payloads without the expected result sets or headers/rowSet             *)
(***************************************************************************)
\* a JSON payload that lacks 'resultSets', or whose result set lacks
\* 'headers'/'rowSet'
SchemaMismatch(body) == body.kind \in {"noresultsets", "noheaders"}

\* strategy 2 examined such a payload: it is among the most recent responses,
\* its URL passed, and no earlier one had returned a frame
SchemaMiss2(log, rng) ==
  LET sorted == SortByTimestampDesc(log)
      recent == SubSeq(sorted, 1, Min(Len(sorted), MaxExamined))
  IN  \E i \in 1..Len(recent) :
        /\ SchemaMismatch(recent[i].body)
        /\ ~UrlSkipped(recent[i].url)
        /\ \A j \in 1..(i - 1) : ExamineResponse(recent[j], rng) = None

\* strategy 3 matched such a payload before any match had returned a frame
SchemaMiss3(blobs, rng, url) ==
  \E i \in 1..Len(blobs) :
    /\ SchemaMismatch(blobs[i])
    /\ \A j \in 1..(i - 1) : ExtractBlob(blobs[j], rng, url) = None

\* the direct API answered 200 with such a payload
SchemaMissApi(resp) ==
  ~resp.exc /\ resp.status = 200 /\ SchemaMismatch(resp.body)

(***************************************************************************)
(* main (lines 824-895)                                                    *)
(***************************************************************************)
\* mutant: the direct API call is made even when the browser gave a frame
NeedsFallbackAlways(d) == TRUE

\* line 847: "if df is None or df.empty" sends the range to the direct API
NeedsFallback(d) == d = None \/ Empty(d)

\* lines 853-862: the final check on str(df) and the column names
has_nba_cup(d) ==
  \/ "nba cup" \in d.text
  \/ "nbacup" \in d.text
  \/ ("cup" \in d.text /\ "nba" \in d.text /\ "regular" \notin d.text)

(***************************************************************************)
(* src/nba_stats.py: fetch_shot_clock_breakdown                            *)
(***************************************************************************)
TEAM_ID == 1610612755

GENERAL_RANGES == <<"Overall", "Catch and Shoot", "Pullups", "Less Than 10 ft">>

NBA_SHOT_CLOCK_RANGES ==
  <<"24-22", "22-18 Very Early", "18-15 Early", "15-7 Average", "7-4 Late",
    "4-0 Very Late">>

\* bounds on the arguments of one call
MaxGeneral == 2

MaxShotClock == 2

\* rows of one result set
MaxTeamRows == 2

\* the arguments of a call: the first elements of the declared tuple
ArgSeqs(s, n) == { SubSeq(s, 1, k) : k \in 0..n }

\* another team of the league
OtherTeam == TEAM_ID - 17

\* _request_params (lines 73-111): the entries that vary; the others are
\* the same text in every request
_request_params(season, season_type, general_range, shot_clock_range) ==
  [ Season |-> season, SeasonType |-> season_type,
    ShotClockRange |-> shot_clock_range, TeamID |-> TEAM_ID,
    GeneralRange |-> general_range ]

\* the TEAM_ID column of a result set: the endpoint reports one row a team
TeamRows ==
  { s \in SeqsUpTo({TEAM_ID, OtherTeam}, MaxTeamRows) :
      \A i, j \in 1..Len(s) : s[i] = s[j] => i = j }

\* what session.get gives: an exception, or a status with a payload that is
\* not JSON, lacks 'resultSets', has an empty 'resultSets', lacks
\* 'headers'/'rowSet', lacks the TEAM_ID column, or is a result set with rows.
\* The session follows redirects that name a Location; a 3xx without one
\* (300 Multiple Choices) is handed to the caller as it is.
StatsResponse(exc, st, k, rows) ==
  [exc |-> exc, status |-> st, kind |-> k, rows |-> rows]

StatsResponses ==
  { StatsResponse(TRUE, 0, "notjson", <<>>) }
    \cup { StatsResponse(FALSE, 200, k, <<>>) :
             k \in {"notjson", "noresultsets", "emptyresultsets", "noheaders",
                    "noteamcol"} }
    \cup { StatsResponse(FALSE, st, "notjson", <<>>) : st \in {300, 404, 500} }
    \cup { StatsResponse(FALSE, st, "json", rows) :
             st \in {200, 300, 404}, rows \in TeamRows }

\* what the call keeps of a response once its rows are taken
Envelope(resp) == [exc |-> resp.exc, status |-> resp.status, kind |-> resp.kind]

\* before the first request
NoResponse == [exc |-> FALSE, status |-> 0, kind |-> "none"]

\* response.raise_for_status(): HTTPError for a 4xx or 5xx status
raise_for_status(resp) == resp.status >= 400 /\ resp.status < 600

\* _extract_rows (lines 114-124): NBAStatsError for a malformed envelope
ExtractRowsRaises(resp) ==
  resp.kind \in {"noresultsets", "emptyresultsets", "noheaders"}

\* the error one request ends the call with, "" when it raises nothing
RequestError(resp) ==
  IF resp.exc THEN "RequestException"
  ELSE IF raise_for_status(resp) THEN "HTTPError"
  ELSE IF resp.kind = "notjson" THEN "JSONDecodeError"
  ELSE IF ExtractRowsRaises(resp) THEN "NBAStatsError"
  ELSE IF resp.kind = "noteamcol" THEN "KeyError"
  ELSE ""

FilterTeamKeepsAll(rows) == rows

\* frame[frame["TEAM_ID"] == TEAM_ID]
FilterTeam(rows) == SelectSeq(rows, LAMBDA t : t = TEAM_ID)

TagRowsSwapped(rows, general_range, shot_clock_range) ==
  [i \in 1..Len(rows) |->
     [team_id |-> rows[i], shot_clock_range |-> general_range,
      general_range |-> shot_clock_range]]

\* lines 164-166: the rows of one pair, tagged with the pair
TagRows(rows, general_range, shot_clock_range) ==
  [i \in 1..Len(rows) |->
     [team_id |-> rows[i], shot_clock_range |-> shot_clock_range,
      general_range |-> general_range]]

PairsShotClockMajor(gr, sr) ==
  [i \in 1..(Len(gr) * Len(sr)) |->
     <<gr[((i - 1) % Len(gr)) + 1], sr[((i - 1) \div Len(gr)) + 1]>>]

\* the nested loops of lines 155-156, in the order they run
Pairs(gr, sr) ==
  [i \in 1..(Len(gr) * Len(sr)) |->
     <<gr[((i - 1) \div Len(sr)) + 1], sr[((i - 1) % Len(sr)) + 1]>>]

RECURSIVE Concat(_)
\* pd.concat(frames, ignore_index=True)
Concat(fs) == IF fs = <<>> THEN <<>> ELSE Head(fs) \o Concat(Tail(fs))

(***************************************************************************)
(* Column values (pandas float64 columns)                                  *)
(*                                                                         *)
(* A cell is an exact fraction, NaN, +inf, -inf, or a text that is not a   *)
(* number.  The counts and frequencies of the files are >= 0; the          *)
(* arguments of a safe_div call may be negative.                           *)
(***************************************************************************)
RECURSIVE GCD(_, _)
GCD(a, b) == IF b = 0 THEN a ELSE GCD(b, a % b)

Nan == [k |-> "nan", n |-> 0, d |-> 1]
Inf == [k |-> "inf", n |-> 0, d |-> 1]
NegInf == [k |-> "neginf", n |-> 0, d |-> 1]
Text == [k |-> "text", n |-> 0, d |-> 1]

\* the fraction n/d in lowest terms with a positive denominator
Num(n, d) ==
  LET sign == IF d < 0 THEN 0 - 1 ELSE 1
      g == GCD(IF n < 0 THEN 0 - n ELSE n, sign * d)
  IN [k |-> "num", n |-> sign * (n \div g), d |-> sign * (d \div g)]

Whole(v) == Num(v, 1)

\* a + b and a * b of two float cells that are not -inf
RAdd(a, b) ==
  IF a.k = "nan" \/ b.k = "nan" THEN Nan
  ELSE IF a.k = "inf" \/ b.k = "inf" THEN Inf
  ELSE Num(a.n * b.d + b.n * a.d, a.d * b.d)

RMul(a, b) ==
  IF a.k = "nan" \/ b.k = "nan" THEN Nan
  ELSE IF a.k = "inf" \/ b.k = "inf"
    THEN IF a = Whole(0) \/ b = Whole(0) THEN Nan ELSE Inf
  ELSE IF a.k = "text" \/ b.k = "text" THEN Text
  ELSE Num(a.n * b.n, a.d * b.d)

\* Series / Series of finite or undefined cells: x/0 is inf for x > 0, -inf
\* for x < 0 and NaN for x = 0, no exception
RDiv(a, b) ==
  IF a.k = "nan" \/ b.k = "nan" THEN Nan
  ELSE IF a.k = "inf" THEN IF b.k = "inf" THEN Nan ELSE Inf
  ELSE IF b.k = "inf" THEN Whole(0)
  ELSE IF b.n = 0
    THEN IF a.n = 0 THEN Nan ELSE IF a.n < 0 THEN NegInf ELSE Inf
  ELSE Num(a.n * b.d, a.d * b.n)

\* a < b for two cells that are not NaN
RLess(a, b) ==
  \/ a.k = "neginf" /\ b.k \in {"num", "inf"}
  \/ /\ a.k = "num"
     /\ b.k = "inf" \/ (b.k # "neginf" /\ a.n * b.d < b.n * a.d)

\* pd.to_numeric(value, errors="coerce") and Series.fillna(v)
to_numeric(a) == IF a.k = "text" THEN Nan ELSE a
fillna(a, v) == IF a.k = "nan" THEN v ELSE a

\* Series.sum() and Series.mean(), both with skipna=True
Sum(s) ==
  LET acc[i \in 0..Len(s)] ==
        IF i = 0 THEN Whole(0) ELSE RAdd(acc[i - 1], fillna(s[i], Whole(0)))
  IN acc[Len(s)]

Mean(s) ==
  LET present == SelectSeq(s, LAMBDA a : a.k # "nan")
  IN IF present = <<>> THEN Nan ELSE RDiv(Sum(present), Whole(Len(present)))

\* the column c of a frame
Col(rows, c) == [i \in 1..Len(rows) |-> rows[i][c]]

\* the sequence s sorted by the keys key[i] of its elements, from the
\* lowest; elements of equal keys keep their order
StableSort(s, key) ==
  LET pos(i) == 1 + Cardinality({ j \in 1..Len(s) :
                     key[j] < key[i] \/ (key[j] = key[i] /\ j < i) })
  IN [p \in 1..Len(s) |-> s[CHOOSE i \in 1..Len(s) : pos(i) = p]]

(***************************************************************************)
(* data_loader.py                                                          *)
(***************************************************************************)
shot_clock_order == <<"24-22", "22-18", "18-15", "15-7", "7-4", "4-0">>

\* the category of a value that is not one of the categories
NaNCategory == "NaN"

\* pd.Categorical(values, categories=order, ordered=True), and its codes
Categorical(v, order) ==
  IF \E i \in 1..Len(order) : order[i] = v THEN v ELSE NaNCategory

CatCode(v, order) ==
  IF \E i \in 1..Len(order) : order[i] = v
  THEN CHOOSE i \in 1..Len(order) : order[i] = v
  ELSE Len(order) + 1

\* the names the files of the model use, in the order Python sorts strings
Alphabetical == <<"BOS", "Brown", "Embiid", "Maxey", "PHI", "Tatum">>

numeric_cols == {"FGM", "FGA", "FG3M", "FG3A", "FG2M", "FG2A", "GP", "G"}

\* one row of shot_clock_data.csv as the scraper's source reports it
CsvRow(player, team, rng, fgm, fga, fg3m, fg3a) ==
  [ PLAYER_NAME |-> player, PLAYER_LAST_TEAM_ABBREVIATION |-> team,
    SHOT_CLOCK_RANGE |-> rng, GP |-> Whole(1),
    FGM |-> Whole(fgm), FGA |-> Whole(fga),
    FG3M |-> Whole(fg3m), FG3A |-> Whole(fg3a),
    FG2M |-> Whole(fgm - fg3m), FG2A |-> Whole(fga - fg3a),
    FG_PCT |-> RDiv(Whole(fgm), Whole(fga)),
    EFG_PCT |-> RDiv(Whole(2 * fgm + fg3m), Whole(2 * fga)) ]

\* an empty PLAYER_LAST_TEAM_ABBREVIATION cell, which read_csv gives as NaN
NoTeam == ""

\* the rows the files of the model are made of: plain rows, a row without
\* attempts, rows with a cell that is empty or not a number, a row of a
\* range that is not one of the six, and a row without a team
CsvRows ==
  { CsvRow("Embiid", "PHI", "24-22", 4, 10, 0, 2),
    CsvRow("Maxey", "PHI", "24-22", 3, 5, 2, 3),
    CsvRow("Tatum", "BOS", "24-22", 3, 5, 2, 3),
    CsvRow("Embiid", "PHI", "4-0", 10, 20, 4, 8),
    CsvRow("Tatum", "BOS", "15-7", 0, 0, 0, 0),
    [CsvRow("Maxey", "PHI", "7-4", 2, 4, 1, 2) EXCEPT !.FGA = Text],
    [CsvRow("Brown", "BOS", "22-18", 2, 4, 1, 2) EXCEPT
        !.FG3M = Nan, !.EFG_PCT = Text],
    CsvRow("Brown", "BOS", "ShotClock Off", 1, 2, 0, 0),
    CsvRow("Maxey", NoTeam, "18-15", 1, 3, 1, 2) }

MaxCsvRows == 3

\* mutant: the categories are the labels of the stats endpoint
load_shot_clock_data_endpoint_labels(file) ==
  LET order == <<"24-22", "22-18 Very Early", "18-15 Early", "15-7 Average",
                 "7-4 Late", "4-0 Very Late">>
      coerced(r) ==
        [c \in DOMAIN r |->
           IF c = "SHOT_CLOCK_RANGE" THEN Categorical(r[c], order)
           ELSE IF c \in {"FGM", "FGA", "FG3M", "FG3A", "FG2M", "FG2A", "GP", "G"}
           THEN IF r[c].k \in {"text", "nan"} THEN Whole(0) ELSE r[c]
           ELSE r[c]]
  IN [i \in 1..Len(file) |->
        [c \in DOMAIN file[i] \cup {"POINTS"} |->
           IF c = "POINTS"
           THEN RAdd(RMul(Whole(2), coerced(file[i]).FG2M),
                     RMul(Whole(3), coerced(file[i]).FG3M))
           ELSE coerced(file[i])[c]]]

\* load_shot_clock_data (lines 69-95): the range becomes an ordered
\* categorical, the count columns are coerced and their gaps filled with 0,
\* POINTS is added; the other columns stay as read
load_shot_clock_data(file) ==
  LET coerced(r) ==
        [c \in DOMAIN r |->
           IF c = "SHOT_CLOCK_RANGE" THEN Categorical(r[c], shot_clock_order)
           ELSE IF c \in numeric_cols THEN fillna(to_numeric(r[c]), Whole(0))
           ELSE r[c]]
      loaded_row(r) ==
        [c \in DOMAIN r \cup {"POINTS"} |->
           IF c = "POINTS"
           THEN RAdd(RMul(Whole(2), coerced(r).FG2M),
                     RMul(Whole(3), coerced(r).FG3M))
           ELSE coerced(r)[c]]
  IN [i \in 1..Len(file) |-> loaded_row(file[i])]

\* get_team_data (lines 98-126).  groupby(..., observed=True) gives the
\* keys that occur, sorted by team and then by the category of the range;
\* a row whose range has no category belongs to no group.
get_team_data(df) ==
  LET Key(r) == <<r.PLAYER_LAST_TEAM_ABBREVIATION, r.SHOT_CLOCK_RANGE>>
      keys == SelectSeq(Pairs(Alphabetical, shot_clock_order),
                        LAMBDA k : \E i \in 1..Len(df) : Key(df[i]) = k)
      agg(key) ==
        LET g == SelectSeq(df, LAMBDA r : Key(r) = key)
            fgm == Sum(Col(g, "FGM"))
            fga == Sum(Col(g, "FGA"))
            fg3m == Sum(Col(g, "FG3M"))
            fg3a == Sum(Col(g, "FG3A"))
            points == Sum(Col(g, "POINTS"))
        IN [ PLAYER_LAST_TEAM_ABBREVIATION |-> key[1],
             SHOT_CLOCK_RANGE |-> key[2],
             TOTAL_FGM |-> fgm, TOTAL_FGA |-> fga,
             TOTAL_FG3M |-> fg3m, TOTAL_FG3A |-> fg3a,
             TOTAL_FG2M |-> Sum(Col(g, "FG2M")),
             TOTAL_FG2A |-> Sum(Col(g, "FG2A")),
             TOTAL_POINTS |-> points,
             NUM_PLAYERS |-> Cardinality({ g[i].PLAYER_NAME : i \in 1..Len(g) }),
             TOTAL_GP |-> Sum(Col(g, "GP")),
             FG_PCT |-> fillna(RDiv(fgm, fga), Whole(0)),
             FG3_PCT |-> fillna(RDiv(fg3m, fg3a), Whole(0)),
             EFG_PCT |-> fillna(RDiv(RAdd(fgm, RMul(Num(1, 2), fg3m)), fga),
                                Whole(0)),
             PTS_PER_FGA |-> fillna(RDiv(points, fga), Whole(0)) ]
  IN [i \in 1..Len(keys) |-> agg(keys[i])]

\* line 135 of get_player_data: df["PTS_PER_FGA"] = ... on the frame that
\* load_shot_clock_data returned, which is the object its lru_cache holds
WithPtsPerFga(df) ==
  [i \in 1..Len(df) |->
     [c \in DOMAIN df[i] \cup {"PTS_PER_FGA"} |->
        IF c = "PTS_PER_FGA"
        THEN fillna(RDiv(df[i].POINTS, df[i].FGA), Whole(0))
        ELSE df[i][c]]]

\* get_player_data (lines 129-140): the per-row PTS_PER_FGA, then a copy of
\* the rows with FGA >= 0.5
get_player_data(df) ==
  SelectSeq(WithPtsPerFga(df), LAMBDA r : ~RLess(r.FGA, Num(1, 2)))

\* the three functions of the module that are wrapped in lru_cache(maxsize=1)
Cached == {"load_shot_clock_data", "get_team_data", "get_player_data"}

(***************************************************************************)
(* app.py: the tables main builds from the loader's frames                 *)
(***************************************************************************)
SHOT_CLOCK_ORDER == <<"24-22", "22-18", "18-15", "15-7", "7-4", "4-0">>

Percent(a) == RMul(a, Whole(100))

IsIn(v, list) == \E i \in 1..Len(list) : list[i] = v

\* the sidebar: the ranges in the order the user selected them, the teams
\* and players selected and the minimum FGA of the slider.  The first is
\* what the widgets hold when the user touches nothing.
Sidebar(all_teams, all_players) ==
  { [selected_ranges |-> SHOT_CLOCK_ORDER, selected_teams |-> all_teams,
     selected_players |-> <<>>, min_fga |-> Whole(1)],
    [selected_ranges |-> <<"4-0", "7-4", "24-22">>, selected_teams |-> all_teams,
     selected_players |-> <<>>, min_fga |-> Whole(0)],
    [selected_ranges |-> SHOT_CLOCK_ORDER,
     selected_teams |-> SelectSeq(all_teams, LAMBDA t : t = "PHI"),
     selected_players |-> SelectSeq(all_players, LAMBDA p : p = "Embiid"),
     min_fga |-> Whole(5)] }

OverallMetricsPlainFg(fgm, fga, fg3m, points) ==
  IF RLess(Whole(0), fga)
  THEN [ fg_pct |-> Percent(RDiv(fgm, fga)),
         efg_pct |-> Percent(RDiv(RAdd(fgm, fg3m), fga)),
         pts_per_fga |-> RDiv(points, fga) ]
  ELSE [ fg_pct |-> Whole(0), efg_pct |-> Whole(0), pts_per_fga |-> Whole(0) ]

\* the first block of tab1 (lines 111-120): the overall metrics
OverallMetrics(fgm, fga, fg3m, points) ==
  IF RLess(Whole(0), fga)
  THEN [ fg_pct |-> Percent(RDiv(fgm, fga)),
         efg_pct |-> Percent(RDiv(RAdd(fgm, RMul(Num(1, 2), fg3m)), fga)),
         pts_per_fga |-> RDiv(points, fga) ]
  ELSE [ fg_pct |-> Whole(0), efg_pct |-> Whole(0), pts_per_fga |-> Whole(0) ]

\* team_by_range (lines 130-147) and player_by_range (lines 252-269): the
\* sums of the counts of each range, the mean of the EFG_PCT column, the
\* recomputed FG_PCT and PTS_PER_FGA, sorted by the range
ByRange(df, fgm, fga, fg3m, points) ==
  LET Key(r) == r.SHOT_CLOCK_RANGE
      keys == SelectSeq(shot_clock_order,
                        LAMBDA k : \E i \in 1..Len(df) : Key(df[i]) = k)
      agg(key) ==
        LET g == SelectSeq(df, LAMBDA r : Key(r) = key)
        IN [ SHOT_CLOCK_RANGE |-> Categorical(key, SHOT_CLOCK_ORDER),
             FGM |-> Sum(Col(g, fgm)), FGA |-> Sum(Col(g, fga)),
             FG3M |-> Sum(Col(g, fg3m)), POINTS |-> Sum(Col(g, points)),
             EFG_PCT |-> Percent(Mean(Col(g, "EFG_PCT"))),
             FG_PCT |-> fillna(Percent(RDiv(Sum(Col(g, fgm)), Sum(Col(g, fga)))),
                               Whole(0)),
             PTS_PER_FGA |-> fillna(RDiv(Sum(Col(g, points)), Sum(Col(g, fga))),
                                    Whole(0)) ]
      groups == [i \in 1..Len(keys) |-> agg(keys[i])]
  IN StableSort(groups, [i \in 1..Len(groups) |->
                  CatCode(groups[i].SHOT_CLOCK_RANGE, SHOT_CLOCK_ORDER)])

TeamComparisonMeanFga(team_filtered) ==
  LET Key(r) == r.PLAYER_LAST_TEAM_ABBREVIATION
      keys == SelectSeq(Alphabetical, LAMBDA k :
                \E i \in 1..Len(team_filtered) : Key(team_filtered[i]) = k)
      agg(key) ==
        LET g == SelectSeq(team_filtered, LAMBDA r : Key(r) = key)
            fgm == Sum(Col(g, "TOTAL_FGM"))
            fga == Mean(Col(g, "TOTAL_FGA"))
            points == Sum(Col(g, "TOTAL_POINTS"))
        IN [ PLAYER_LAST_TEAM_ABBREVIATION |-> key,
             TOTAL_FGM |-> fgm, TOTAL_FGA |-> fga, TOTAL_POINTS |-> points,
             FG_PCT |-> fillna(Percent(RDiv(fgm, fga)), Whole(0)),
             PTS_PER_FGA |-> fillna(RDiv(points, fga), Whole(0)) ]
      groups == [i \in 1..Len(keys) |-> agg(keys[i])]
  IN StableSort(groups, [i \in 1..Len(groups) |->
                  Cardinality({ j \in 1..Len(groups) :
                    RLess(groups[i].PTS_PER_FGA, groups[j].PTS_PER_FGA) })])

\* team_comparison (lines 223-230): the sums of each team, the recomputed
\* ratios, sorted by PTS_PER_FGA from the highest
TeamComparison(team_filtered) ==
  LET Key(r) == r.PLAYER_LAST_TEAM_ABBREVIATION
      keys == SelectSeq(Alphabetical, LAMBDA k :
                \E i \in 1..Len(team_filtered) : Key(team_filtered[i]) = k)
      agg(key) ==
        LET g == SelectSeq(team_filtered, LAMBDA r : Key(r) = key)
            fgm == Sum(Col(g, "TOTAL_FGM"))
            fga == Sum(Col(g, "TOTAL_FGA"))
            points == Sum(Col(g, "TOTAL_POINTS"))
        IN [ PLAYER_LAST_TEAM_ABBREVIATION |-> key,
             TOTAL_FGM |-> fgm, TOTAL_FGA |-> fga, TOTAL_POINTS |-> points,
             FG_PCT |-> fillna(Percent(RDiv(fgm, fga)), Whole(0)),
             PTS_PER_FGA |-> fillna(RDiv(points, fga), Whole(0)) ]
      groups == [i \in 1..Len(keys) |-> agg(keys[i])]
  IN StableSort(groups, [i \in 1..Len(groups) |->
                  Cardinality({ j \in 1..Len(groups) :
                    RLess(groups[i].PTS_PER_FGA, groups[j].PTS_PER_FGA) })])

\* team_display and player_display of tab4 (lines 433-439 and 465-471):
\* FG_PCT and EFG_PCT times 100, sorted by the name and then the range
DetailedLexical(df, name) ==
  StableSort([i \in 1..Len(df) |->
                [df[i] EXCEPT !.FG_PCT = Percent(@), !.EFG_PCT = Percent(@)]],
             [i \in 1..Len(df) |->
                CatCode(df[i][name], Alphabetical) * (Len(shot_clock_order) + 2)
                  + CatCode(df[i].SHOT_CLOCK_RANGE,
                            <<"15-7", "18-15", "22-18", "24-22", "4-0", "7-4">>)])

Detailed(df, name) ==
  StableSort([i \in 1..Len(df) |->
                [df[i] EXCEPT !.FG_PCT = Percent(@), !.EFG_PCT = Percent(@)]],
             [i \in 1..Len(df) |->
                CatCode(df[i][name], Alphabetical) * (Len(shot_clock_order) + 2)
                  + CatCode(df[i].SHOT_CLOCK_RANGE, shot_clock_order)])

\* main (lines 25-494) for one state of the sidebar: the filtered frames
\* and the tables of tab1, tab2 and tab4.  The mean of an EFG_PCT column
\* that holds a text raises in tab2 and ends the run there.
app_main(file, team_df, player_df, inp) ==
  LET team_filtered ==
        SelectSeq(team_df, LAMBDA r :
          /\ IsIn(r.SHOT_CLOCK_RANGE, inp.selected_ranges)
          /\ IsIn(r.PLAYER_LAST_TEAM_ABBREVIATION, inp.selected_teams))
      by_min == SelectSeq(player_df, LAMBDA r :
          /\ IsIn(r.SHOT_CLOCK_RANGE, inp.selected_ranges)
          /\ ~RLess(r.FGA, inp.min_fga))
      player_filtered ==
        IF inp.selected_players # <<>>
        THEN SelectSeq(by_min, LAMBDA r : IsIn(r.PLAYER_NAME, inp.selected_players))
        ELSE by_min
      tab1 == team_filtered # <<>>
      tab2 == player_filtered # <<>>
      raised == tab2 /\ \E i \in 1..Len(file) : file[i].EFG_PCT = Text
      player_by_range == ByRange(player_filtered, "FGM", "FGA", "FG3M", "POINTS")
  IN [ built |-> TRUE, raised |-> raised, inp |-> inp,
       tab1 |-> tab1, tab2 |-> tab2,
       team_filtered |-> team_filtered, player_filtered |-> player_filtered,
       overall |->
         IF tab1 THEN OverallMetrics(Sum(Col(team_filtered, "TOTAL_FGM")),
                                     Sum(Col(team_filtered, "TOTAL_FGA")),
                                     Sum(Col(team_filtered, "TOTAL_FG3M")),
                                     Sum(Col(team_filtered, "TOTAL_POINTS")))
         ELSE "none",
       team_by_range |->
         IF tab1 THEN ByRange(team_filtered, "TOTAL_FGM", "TOTAL_FGA",
                              "TOTAL_FG3M", "TOTAL_POINTS")
         ELSE <<>>,
       team_comparison |-> IF tab1 THEN TeamComparison(team_filtered) ELSE <<>>,
       player_by_range |-> IF tab2 /\ ~raised THEN player_by_range ELSE <<>>,
       player_overall |->
         IF tab2 /\ ~raised
         THEN OverallMetrics(Sum(Col(player_by_range, "FGM")),
                             Sum(Col(player_by_range, "FGA")),
                             Sum(Col(player_by_range, "FG3M")),
                             Sum(Col(player_by_range, "POINTS")))
         ELSE "none",
       team_display |->
         IF raised THEN <<>>
         ELSE Detailed(team_filtered, "PLAYER_LAST_TEAM_ABBREVIATION"),
       player_display |->
         IF raised THEN <<>> ELSE Detailed(player_filtered, "PLAYER_NAME") ]

(***************************************************************************)
(* nba_stats.py: _prepare_dataframe (lines 178-248)                        *)
(***************************************************************************)
\* the columns of NUMERIC_COLUMNS (lines 49-63) that the frames of the
\* model carry; GP is not one of them
NUMERIC_COLUMNS ==
  {"FGA_FREQUENCY", "FGM", "FGA", "FG_PCT", "FG2A_FREQUENCY", "FG2M",
   "FG3A_FREQUENCY", "FG3M", "FG3A"}

\* safe_div (lines 66-70) of one element: the quotient, with inf and -inf
\* replaced by the NA value
safe_div_unguarded(numerator, denominator) == RDiv(numerator, denominator)

safe_div_positive_inf(numerator, denominator) ==
  IF RDiv(numerator, denominator) = Inf THEN Nan
  ELSE RDiv(numerator, denominator)

safe_div(numerator, denominator) ==
  IF RDiv(numerator, denominator) \in {Inf, NegInf} THEN Nan
  ELSE RDiv(numerator, denominator)

\* the cells of the Series handed to a safe_div call
SeriesCells == {Whole(0), Whole(2), Whole(0 - 3), Nan}

MaxSeries == 3

\* one row of the concatenated result sets, as the endpoint reports it
StatsRow(freq, freq2, freq3, fgm, fga, fg3m, fg3a) ==
  [ GP |-> Whole(1),
    FGA_FREQUENCY |-> freq, FG2A_FREQUENCY |-> freq2, FG3A_FREQUENCY |-> freq3,
    FGM |-> Whole(fgm), FGA |-> Whole(fga),
    FG2M |-> Whole(fgm - fg3m), FG3M |-> Whole(fg3m), FG3A |-> Whole(fg3a),
    FG_PCT |-> RDiv(Whole(fgm), Whole(fga)) ]

\* rows with frequencies in percent, as fractions and mixed by column, a
\* row without shots, a row with makes whose attempts read 0, and rows with
\* cells that are empty or no number
StatsRows ==
  { StatsRow(Whole(45), Whole(60), Num(2, 5), 10, 20, 4, 8),
    StatsRow(Whole(100), Num(1, 2), Whole(1), 3, 5, 2, 3),
    StatsRow(Num(1, 2), Num(1, 4), Num(1, 4), 0, 0, 0, 0),
    [StatsRow(Whole(20), Num(1, 4), Whole(15), 2, 4, 1, 2) EXCEPT
        !.FGA = Whole(0)],
    [StatsRow(Nan, Text, Whole(30), 2, 4, 1, 2) EXCEPT !.FGM = Text],
    [StatsRow(Whole(1), Whole(40), Nan, 2, 4, 1, 2) EXCEPT
        !.FGA = Nan, !.GP = Text],
    [StatsRow(Whole(0), Whole(0), Whole(0), 1, 2, 0, 0) EXCEPT
        !.FG_PCT = Text, !.FG3M = Nan] }

MaxStatsRows == 3

_prepare_dataframe_one_scale(df) ==
  LET num == [i \in 1..Len(df) |->
                [c \in DOMAIN df[i] |->
                   IF c \in NUMERIC_COLUMNS THEN to_numeric(df[i][c])
                   ELSE df[i][c]]]
      percent(column) ==
        \E i \in 1..Len(df) : RLess(Whole(1), num[i]["FGA_FREQUENCY"])
      frequency(i, column) ==
        IF percent(column) THEN RDiv(num[i][column], Whole(100))
        ELSE num[i][column]
      points(i) == RAdd(RMul(num[i].FG2M, Whole(2)), RMul(num[i].FG3M, Whole(3)))
  IN [i \in 1..Len(df) |->
        [ games_played |-> num[i].GP,
          fgm |-> num[i].FGM, fga |-> num[i].FGA, fg_pct |-> num[i].FG_PCT,
          fg2m |-> num[i].FG2M,
          fg2a_frequency |-> frequency(i, "FG2A_FREQUENCY"),
          fg3m |-> num[i].FG3M, fg3a |-> num[i].FG3A,
          fg3a_frequency |-> frequency(i, "FG3A_FREQUENCY"),
          fga_frequency |-> frequency(i, "FGA_FREQUENCY"),
          points |-> points(i),
          points_per_shot |-> safe_div(points(i), num[i].FGA),
          fg3_rate |-> safe_div(num[i].FG3A, num[i].FGA) ]]

\* the columns renamed, the numeric columns coerced (no gap is filled),
\* each frequency column divided by 100 when its maximum exceeds 1, and
\* points, points_per_shot and fg3_rate added
_prepare_dataframe(df) ==
  LET num == [i \in 1..Len(df) |->
                [c \in DOMAIN df[i] |->
                   IF c \in NUMERIC_COLUMNS THEN to_numeric(df[i][c])
                   ELSE df[i][c]]]
      percent(column) ==
        \E i \in 1..Len(df) : RLess(Whole(1), num[i][column])
      frequency(i, column) ==
        IF percent(column) THEN RDiv(num[i][column], Whole(100))
        ELSE num[i][column]
      points(i) == RAdd(RMul(num[i].FG2M, Whole(2)), RMul(num[i].FG3M, Whole(3)))
  IN [i \in 1..Len(df) |->
        [ games_played |-> num[i].GP,
          fgm |-> num[i].FGM, fga |-> num[i].FGA, fg_pct |-> num[i].FG_PCT,
          fg2m |-> num[i].FG2M,
          fg2a_frequency |-> frequency(i, "FG2A_FREQUENCY"),
          fg3m |-> num[i].FG3M, fg3a |-> num[i].FG3A,
          fg3a_frequency |-> frequency(i, "FG3A_FREQUENCY"),
          fga_frequency |-> frequency(i, "FGA_FREQUENCY"),
          points |-> points(i),
          points_per_shot |-> safe_div(points(i), num[i].FGA),
          fg3_rate |-> safe_div(num[i].FG3A, num[i].FGA) ]]

(***************************************************************************)
(* State                                                                   *)
(***************************************************************************)
VARIABLES
  upstream,     \* what the site serves in this run
  pc,           \* where main is
  idx,          \* index of shot_clock_range in SHOT_CLOCK_RANGES
  df,           \* main's df
  driver,       \* the browser session of the current scrape_with_selenium
  current_url,  \* driver.current_url after the page load
  all_data,     \* main's all_data
  output_file,  \* nba_shotclock_data.csv
  ret,          \* how main ended
  probe,        \* result of a stand-alone get_nba_api_data call
  tried,        \* strategies attempted for the current range, in order
  returned,     \* for each of them, whether it returned a frame
  lastexc,      \* whether the last of them raised an exception inside
  outcome,      \* per range: pending, ok, failed (no frame), rejected (Cup)
  processed,    \* per range: how often its processing started
  schemafail,   \* the last attempt met a payload without result sets or headers/rowSet
  lastfetch,    \* index of the range of the last request sent upstream
  slept,        \* a time.sleep(2) has passed since that request
  f_pc,         \* where fetch_shot_clock_breakdown is
  f_args,       \* its general_ranges and shot_clock_ranges
  frames,       \* its frames list
  requests,     \* the (general_range, shot_clock_range) pairs requested so far
  response,     \* the response to the last of them
  f_ret,        \* how the call ended
  table,        \* the table it returned
  t_pc,         \* where the dashboard's data path is
  csv,          \* the rows pd.read_csv gave
  loaded,       \* the frame load_shot_clock_data returned
  team_data,    \* the frame get_team_data returned
  player_data,  \* the frame get_player_data returned
  app,          \* the tables and metrics app.main built
  p_in,         \* the frame handed to _prepare_dataframe
  p_out,        \* the frame it returned
  sessions,     \* browser sessions that are open
  params,       \* the params of the requests of fetch_shot_clock_breakdown
  hits,         \* for each of them, the rows of TEAM_ID its response held
  f_slept,      \* a delay has passed since the last of them
  cached,       \* the data_loader functions whose lru_cache holds a result
  sel,          \* a rendered page and what the table strategies took of it
  lg,           \* a performance log and what strategy 2 read of it
  sd,           \* the arguments and the result of a safe_div call
  x_pc,         \* where data_extraction.py is: "loop", "saved" or "nodata"
  x_idx,        \* index of t in nba_teams
  all_shots,    \* its all_shots
  x_slept       \* a delay has passed since its last request

scrapevars ==
  <<upstream, pc, idx, df, driver, current_url, all_data, output_file, ret,
    probe, tried, returned, lastexc, schemafail, outcome, processed, lastfetch,
    slept, sessions>>

fetchvars ==
  <<f_pc, f_args, frames, requests, response, f_ret, table, params, hits,
    f_slept>>

tablevars == <<t_pc, csv, loaded, team_data, player_data, app, p_in, p_out>>

\* the stand-alone calls: the loader's caches, the table strategies, the
\* captured responses and safe_div
unitvars == <<cached, sel, lg, sd>>

\* data/data_extraction.py
teamvars == <<x_pc, x_idx, all_shots, x_slept>>

vars == <<scrapevars, fetchvars, tablevars, unitvars, teamvars>>

\* before app.main has run
NoApp == [built |-> FALSE]

\* before a stand-alone call
NoCall == [called |-> FALSE]

NoFile == [written |-> FALSE, rows |-> <<>>]

Range == SHOT_CLOCK_RANGES[idx]

Init ==
  /\ upstream \in Upstreams
  /\ pc = "idle"
  /\ idx = 1
  /\ df = None
  /\ driver = "none"
  /\ current_url = ""
  /\ all_data = <<>>
  /\ output_file = NoFile
  /\ ret = "running"
  /\ probe = None
  /\ tried = <<>>
  /\ returned = <<>>
  /\ lastexc = FALSE
  /\ schemafail = FALSE
  /\ outcome = [i \in 1..NumRanges |-> "pending"]
  /\ processed = [i \in 1..NumRanges |-> 0]
  /\ lastfetch = 0
  /\ slept = FALSE
  /\ f_pc = "idle"
  /\ f_args = [general_ranges |-> <<>>, shot_clock_ranges |-> <<>>,
               season |-> "", season_type |-> ""]
  /\ frames = <<>>
  /\ requests = <<>>
  /\ response = NoResponse
  /\ f_ret = "running"
  /\ table = <<>>
  /\ t_pc = "idle"
  /\ csv = <<>>
  /\ loaded = <<>>
  /\ team_data = <<>>
  /\ player_data = <<>>
  /\ app = NoApp
  /\ p_in = <<>>
  /\ p_out = <<>>
  /\ sessions = 0
  /\ params = <<>>
  /\ hits = <<>>
  /\ f_slept = FALSE
  /\ cached = {}
  /\ sel = NoCall
  /\ lg = NoCall
  /\ sd = NoCall
  /\ x_pc = "loop"
  /\ x_idx = 1
  /\ all_shots = <<>>
  /\ x_slept = FALSE

(***************************************************************************)
(* Actions                                                                 *)
(***************************************************************************)
\* main, lines 824-837: all_data = [] and the loop is entered
StartMain ==
  /\ pc = "idle"
  /\ pc' = "load"
  /\ UNCHANGED <<teamvars, unitvars, tablevars, fetchvars, sessions, schemafail, upstream, idx, df, driver, current_url, all_data, output_file,
                 ret, probe, tried, returned, lastexc, outcome, processed,
                 lastfetch, slept>>

\* a stand-alone call of get_nba_api_data (main never calls it)
CallGetNbaApiData ==
  /\ pc = "idle"
  /\ \E i \in 1..NumRanges, resp \in HttpResponses(upstream) :
       /\ probe' = get_nba_api_data(resp, SHOT_CLOCK_RANGES[i])
       /\ schemafail' = SchemaMissApi(resp)
  /\ pc' = IF probe'.kind = "raised" THEN "crashed" ELSE "probed"
  /\ UNCHANGED <<teamvars, unitvars, tablevars, fetchvars, sessions, upstream, idx, df, driver, current_url, all_data, output_file,
                 ret, tried, returned, lastexc, outcome, processed, lastfetch,
                 slept>>

\* scrape_with_selenium returns d to main, which goes on at line 847
SeleniumReturns(d) ==
  /\ df' = d
  /\ pc' = IF NeedsFallback(d) THEN "api" ELSE "check"

\* scrape_with_selenium, lines 113-346: the browser starts and loads the page.
\* No browser ("nodriver") and a failed load ("loadfail") reach the except at
\* line 677; the scrolling and pagination steps swallow their own exceptions.
LoadPage ==
  /\ pc = "load"
  /\ processed' = [processed EXCEPT ![idx] = @ + 1]
  /\ \E o \in {"nodriver", "loadfail", "ok"}, u \in PageUrls(upstream) :
       /\ IF o = "ok"
          THEN /\ driver' = "open"
               /\ current_url' = u
               /\ pc' = "s1"
               /\ df' = df
          ELSE /\ driver' = IF o = "loadfail" THEN "closed" ELSE "none"
               /\ current_url' = ""
               /\ SeleniumReturns(None)
       /\ IF o = "nodriver"
          THEN UNCHANGED <<lastfetch, slept>>
          ELSE lastfetch' = idx /\ slept' = FALSE
       \* webdriver.Chrome(...) opens a session; "finally: driver.quit()"
       \* (lines 681-683) has closed it when the load failed
       /\ sessions' = IF o = "ok" THEN sessions + 1 ELSE sessions
  /\ UNCHANGED <<teamvars, unitvars, tablevars, fetchvars, schemafail, upstream, idx, all_data, output_file, ret, probe,
                 tried, returned, lastexc, outcome>>

\* mutant: driver.quit() is called where a frame is returned only, not in a
\* finally clause, so the return of None at line 685 leaves the browser open
StrategyStepNoFinally(k, exc, r, next) ==
  /\ tried' = Append(tried, k)
  /\ returned' = Append(returned, r.kind = "frame")
  /\ lastexc' = exc
  /\ IF r.kind = "raised"
     THEN pc' = "crashed" /\ ret' = "raised" /\ driver' = "closed" /\ df' = df
     ELSE IF r.kind = "frame"
     THEN SeleniumReturns(r) /\ driver' = "closed" /\ ret' = ret
     ELSE IF next = "api"
     THEN SeleniumReturns(None) /\ driver' = driver /\ ret' = ret
     ELSE pc' = next /\ UNCHANGED <<df, driver, ret>>
  /\ sessions' = IF driver' = "closed" THEN sessions - 1 ELSE sessions
  /\ UNCHANGED <<teamvars, unitvars, tablevars, fetchvars, upstream, idx, current_url, all_data, output_file, probe,
                 outcome, processed, lastfetch, slept>>

\* one in-browser strategy k with result r; next: where the code goes on when
\* the strategy gave nothing ("api": the function ends and returns None)
StrategyStep(k, exc, r, next) ==
  /\ tried' = Append(tried, k)
  /\ returned' = Append(returned, r.kind = "frame")
  /\ lastexc' = exc
  /\ IF r.kind = "raised"
     THEN pc' = "crashed" /\ ret' = "raised" /\ driver' = "closed" /\ df' = df
     ELSE IF r.kind = "frame"
     THEN SeleniumReturns(r) /\ driver' = "closed" /\ ret' = ret
     ELSE IF next = "api"
     THEN SeleniumReturns(None) /\ driver' = "closed" /\ ret' = ret
     ELSE pc' = next /\ UNCHANGED <<df, driver, ret>>
  \* lines 681-683: the finally clause runs on every way out
  /\ sessions' = IF driver' = "closed" THEN sessions - 1 ELSE sessions
  /\ UNCHANGED <<teamvars, unitvars, tablevars, fetchvars, upstream, idx, current_url, all_data, output_file, probe,
                 outcome, processed, lastfetch, slept>>

RenderedTable ==
  /\ pc = "s1"
  /\ \E exc \in BOOLEAN :
     \E page \in IF exc THEN {<<>>} ELSE Pages(upstream) :
       /\ StrategyStep(1, exc, Strategy1(page, exc, Range, current_url), "s2")
       /\ schemafail' = FALSE

NetworkResponses ==
  /\ pc = "s2"
  /\ \E exc \in BOOLEAN :
     \E log \in IF exc THEN {<<>>} ELSE Logs(upstream) :
       /\ StrategyStep(2, exc, Strategy2(log, exc, Range), "s3")
       /\ schemafail' = SchemaMiss2(log, Range)

EmbeddedJson ==
  /\ pc = "s3"
  /\ \E exc \in BOOLEAN :
     \E blobs \in IF exc THEN {<<>>} ELSE Blobs(upstream) :
       /\ StrategyStep(3, exc, Strategy3(blobs, exc, Range, current_url), "s4")
       /\ schemafail' = SchemaMiss3(blobs, Range, current_url)

SoupSweep ==
  /\ pc = "s4"
  /\ \E exc \in BOOLEAN :
     \E page \in IF exc THEN {<<>>} ELSE Pages(upstream) :
       /\ StrategyStep(4, exc, Strategy4(page, exc, Range, current_url), "api")
       /\ schemafail' = FALSE

\* main, lines 847-849: the direct API call
DirectApi ==
  /\ pc = "api"
  /\ \E resp \in HttpResponses(upstream) :
       LET r == scrape_with_requests_api(resp, Range)
       IN  /\ returned' = Append(returned, r.kind = "frame")
           /\ lastexc' = ApiRaisesInside(resp)
           /\ schemafail' = SchemaMissApi(resp)
           /\ IF r.kind = "raised"
              THEN pc' = "crashed" /\ ret' = "raised" /\ df' = df
              ELSE pc' = "check" /\ ret' = ret /\ df' = r
  /\ tried' = Append(tried, 5)
  /\ lastfetch' = idx
  /\ slept' = FALSE
  /\ UNCHANGED <<teamvars, unitvars, tablevars, fetchvars, sessions, upstream, idx, driver, current_url, all_data,
                 output_file, probe, outcome, processed>>

\* main, lines 851-871: the final check and the append.  df is not read
\* again before line 843 assigns it for the next range.
FinalCheck ==
  /\ pc = "check"
  /\ IF df # None /\ ~Empty(df)
     THEN IF has_nba_cup(df)
          THEN /\ outcome' = [outcome EXCEPT ![idx] = "rejected"]
               /\ all_data' = all_data
          ELSE /\ outcome' = [outcome EXCEPT ![idx] = "ok"]
               /\ all_data' = Append(all_data, df)
     ELSE /\ outcome' = [outcome EXCEPT ![idx] = "failed"]
          /\ all_data' = all_data
  /\ pc' = "sleep"
  /\ df' = None
  /\ driver' = "none"
  /\ current_url' = ""
  /\ tried' = <<>>
  /\ returned' = <<>>
  /\ lastexc' = FALSE
  /\ schemafail' = FALSE
  /\ UNCHANGED <<teamvars, unitvars, tablevars, fetchvars, sessions, upstream, idx, output_file, ret, probe, processed,
                 lastfetch, slept>>

\* mutant: the loop is left at the first range without a frame
SleepAbortOnFailure ==
  /\ pc = "sleep"
  /\ slept' = TRUE
  /\ IF idx < NumRanges /\ outcome[idx] = "ok"
     THEN idx' = idx + 1 /\ pc' = "load"
     ELSE idx' = idx /\ pc' = "concat"
  /\ UNCHANGED <<teamvars, unitvars, tablevars, fetchvars, sessions, schemafail, upstream, df, driver, current_url, all_data,
                 output_file, ret, probe, tried, returned, lastexc, outcome,
                 processed, lastfetch>>

\* mutant: the delay is taken only after a range that gave a frame
SleepOnSuccessOnly ==
  /\ pc = "sleep"
  /\ slept' = (slept \/ outcome[idx] = "ok")
  /\ IF idx < NumRanges
     THEN idx' = idx + 1 /\ pc' = "load"
     ELSE idx' = idx /\ pc' = "concat"
  /\ UNCHANGED <<teamvars, unitvars, tablevars, fetchvars, sessions, schemafail, upstream, df, driver, current_url, all_data,
                 output_file, ret, probe, tried, returned, lastexc, outcome,
                 processed, lastfetch>>

\* mutant: a range without a frame is tried a second time
SleepRetryFailed ==
  /\ pc = "sleep"
  /\ slept' = TRUE
  /\ IF outcome[idx] # "ok" /\ processed[idx] < 2
     THEN idx' = idx /\ pc' = "load"
     ELSE IF idx < NumRanges
     THEN idx' = idx + 1 /\ pc' = "load"
     ELSE idx' = idx /\ pc' = "concat"
  /\ UNCHANGED <<teamvars, unitvars, tablevars, fetchvars, sessions, schemafail, upstream, df, driver, current_url, all_data,
                 output_file, ret, probe, tried, returned, lastexc, outcome,
                 processed, lastfetch>>

\* main, line 874 and the loop head at line 837
Sleep ==
  /\ pc = "sleep"
  /\ slept' = TRUE
  /\ IF idx < NumRanges
     THEN idx' = idx + 1 /\ pc' = "load"
     ELSE idx' = idx /\ pc' = "concat"
  /\ UNCHANGED <<teamvars, unitvars, tablevars, fetchvars, sessions, schemafail, upstream, df, driver, current_url, all_data,
                 output_file, ret, probe, tried, returned, lastexc, outcome,
                 processed, lastfetch>>

\* mutant: the CSV is written whatever all_data holds
FinishAlwaysWrites ==
  /\ pc = "concat"
  /\ output_file' = [written |-> TRUE, rows |-> all_data]
  /\ ret' = IF all_data # <<>> THEN "final_df" ELSE "None"
  /\ pc' = "done"
  /\ UNCHANGED <<teamvars, unitvars, tablevars, fetchvars, sessions, schemafail, upstream, idx, df, driver, current_url, all_data,
                 probe, tried, returned, lastexc, outcome, processed, lastfetch,
                 slept>>

\* main, lines 876-895
Finish ==
  /\ pc = "concat"
  /\ IF all_data # <<>>
     THEN /\ output_file' = [written |-> TRUE, rows |-> all_data]
          /\ ret' = "final_df"
     ELSE /\ output_file' = output_file
          /\ ret' = "None"
  /\ pc' = "done"
  /\ UNCHANGED <<teamvars, unitvars, tablevars, fetchvars, sessions, schemafail, upstream, idx, df, driver, current_url, all_data,
                 probe, tried, returned, lastexc, outcome, processed, lastfetch,
                 slept>>

(***************************************************************************)
(* fetch_shot_clock_breakdown (src/nba_stats.py, lines 127-175)            *)
(***************************************************************************)
\* the call, with its general_ranges and shot_clock_ranges
CallFetch ==
  /\ f_pc = "idle"
  /\ \E gr \in ArgSeqs(GENERAL_RANGES, MaxGeneral),
        sr \in ArgSeqs(NBA_SHOT_CLOCK_RANGES, MaxShotClock),
        season \in {"2024-25", "2023-24"},
        season_type \in {"Regular Season", "Playoffs"} :
       f_args' = [general_ranges |-> gr, shot_clock_ranges |-> sr,
                  season |-> season, season_type |-> season_type]
  /\ f_pc' = "loop"
  /\ UNCHANGED <<teamvars, unitvars, tablevars, scrapevars, params, hits, f_slept, frames, requests, response, f_ret, table>>

AllPairs == Pairs(f_args.general_ranges, f_args.shot_clock_ranges)

\* lines 157-167: one pass of the loop body; an error unwinds the call and
\* its locals
FetchPair ==
  /\ f_pc = "loop"
  /\ Len(requests) < Len(AllPairs)
  /\ LET pair == AllPairs[Len(requests) + 1]
     IN  /\ requests' = Append(requests, pair)
         /\ params' = Append(params, _request_params(f_args.season,
                                 f_args.season_type, pair[1], pair[2]))
         /\ \E resp \in StatsResponses :
              /\ response' = Envelope(resp)
              /\ IF RequestError(resp) # ""
                 THEN /\ f_ret' = RequestError(resp)
                      /\ f_pc' = "done"
                      /\ frames' = <<>>
                      /\ hits' = hits
                 ELSE /\ f_ret' = f_ret
                      /\ f_pc' = f_pc
                      /\ frames' =
                           IF FilterTeam(resp.rows) = <<>> THEN frames
                           ELSE Append(frames,
                                       TagRows(FilterTeam(resp.rows), pair[1], pair[2]))
                      /\ hits' = Append(hits, Cardinality(
                                  { i \in 1..Len(resp.rows) : resp.rows[i] = TEAM_ID }))
  \* no statement of the loop body waits
  /\ f_slept' = FALSE
  /\ UNCHANGED <<teamvars, unitvars, tablevars, scrapevars, f_args, table>>

\* lines 169-175: after the loops; _prepare_dataframe keeps the rows and their order
FetchReturn ==
  /\ f_pc = "loop"
  /\ Len(requests) = Len(AllPairs)
  /\ IF frames = <<>>
     THEN f_ret' = "NBAStatsError" /\ table' = table
     ELSE f_ret' = "table" /\ table' = Concat(frames)
  /\ f_pc' = "done"
  /\ UNCHANGED <<teamvars, unitvars, tablevars, scrapevars, params, hits, f_slept, f_args, frames, requests, response>>

NextFetch ==
  \/ CallFetch
  \/ FetchPair
  \/ FetchReturn

SpecFetch == Init /\ [][NextFetch]_vars

(***************************************************************************)
(* data_extraction.py (lines 28-54): the loop over the teams               *)
(***************************************************************************)
\* teams in nba_teams
MaxTeams == 3

\* teams.get_teams(), line 7: the teams by their ids
nba_teams == [i \in 1..MaxTeams |-> i]

\* lines 32-46: the loop body for one team.  time.sleep(1.5) is the last
\* statement of the try block, after the append; the except clause only
\* prints.
FetchTeam ==
  /\ x_pc = "loop"
  /\ x_idx <= Len(nba_teams)
  /\ \E raised \in BOOLEAN :
       IF raised
       THEN all_shots' = all_shots /\ x_slept' = FALSE
       ELSE all_shots' = Append(all_shots, nba_teams[x_idx]) /\ x_slept' = TRUE
  /\ x_idx' = x_idx + 1
  /\ UNCHANGED <<x_pc, unitvars, tablevars, fetchvars, scrapevars>>

\* lines 48-54: the frames are concatenated and saved if there are any
SaveTeams ==
  /\ x_pc = "loop"
  /\ x_idx > Len(nba_teams)
  /\ x_pc' = IF all_shots # <<>> THEN "saved" ELSE "nodata"
  /\ UNCHANGED <<x_idx, all_shots, x_slept, unitvars, tablevars, fetchvars, scrapevars>>

\* the two programs that request once per item of a loop
NextLoops ==
  \/ FetchTeam
  \/ SaveTeams
  \/ CallFetch
  \/ FetchPair
  \/ FetchReturn

SpecLoops == Init /\ [][NextLoops]_vars

Next ==
  \/ StartMain
  \/ CallGetNbaApiData
  \/ LoadPage
  \/ RenderedTable
  \/ NetworkResponses
  \/ EmbeddedJson
  \/ SoupSweep
  \/ DirectApi
  \/ FinalCheck
  \/ Sleep
  \/ Finish

Spec == Init /\ [][Next]_vars

\* main's loop always goes on: each step of it ends
FairSpec == Spec /\ WF_vars(Next)

\* one run of either acquisition program: the scraper's main or a call of
\* fetch_shot_clock_breakdown
NextAcq ==
  \/ f_pc = "idle" /\ Next
  \/ pc = "idle" /\ NextFetch

SpecAcq == Init /\ [][NextAcq]_vars

(***************************************************************************)
(* The tables: app.py's main on a shot_clock_data.csv, _prepare_dataframe  *)
(***************************************************************************)
\* the file the dashboard finds at data/shot_clock_data.csv
CsvOnDisk ==
  /\ t_pc = "idle"
  /\ \E n \in 0..MaxCsvRows : \E file \in [1..n -> CsvRows] : csv' = file
  /\ t_pc' = "file"
  /\ UNCHANGED <<teamvars, unitvars, scrapevars, fetchvars, loaded, team_data, player_data, app,
                 p_in, p_out>>

\* one run of main (lines 25-494): the three loader calls of lines 38-41,
\* then the sidebar and the tabs.  raw_df is the frame of the loader's
\* cache, to which get_player_data has added its column.
AppMain ==
  /\ t_pc = "file"
  /\ \E raw_df \in {load_shot_clock_data(csv)} :
       \E team_df \in {get_team_data(raw_df)} :
         \E player_df \in {get_player_data(raw_df)} :
           /\ loaded' = WithPtsPerFga(raw_df)
           /\ team_data' = team_df
           /\ player_data' = player_df
           /\ \E inp \in Sidebar(
                  SelectSeq(Alphabetical, LAMBDA t : \E i \in 1..Len(team_df) :
                              team_df[i].PLAYER_LAST_TEAM_ABBREVIATION = t),
                  SelectSeq(Alphabetical, LAMBDA p : \E i \in 1..Len(player_df) :
                              player_df[i].PLAYER_NAME = p)) :
                app' = app_main(csv, team_df, player_df, inp)
  /\ cached' = Cached
  /\ t_pc' = "shown"
  /\ UNCHANGED <<teamvars, scrapevars, fetchvars, csv, p_in, p_out, sel, lg, sd>>

\* a call of _prepare_dataframe on the concatenated frames (line 175)
PrepareDataframe ==
  /\ t_pc = "idle"
  /\ \E n \in 1..MaxStatsRows : \E combined \in [1..n -> StatsRows] :
       /\ p_in' = combined
       /\ p_out' = _prepare_dataframe(combined)
  /\ t_pc' = "prepared"
  /\ UNCHANGED <<teamvars, unitvars, scrapevars, fetchvars, csv, loaded, team_data, player_data, app>>

(***************************************************************************)
(* Stand-alone calls of the functions and strategies                       *)
(***************************************************************************)
\* load_shot_clock_data(): the first call reads the file and fills the
\* cache; every later call returns the cached frame, the variable loaded
LoadShotClockData ==
  /\ t_pc = "file"
  /\ "load_shot_clock_data" \notin cached
  /\ loaded' = load_shot_clock_data(csv)
  /\ cached' = cached \cup {"load_shot_clock_data"}
  /\ UNCHANGED <<teamvars, scrapevars, fetchvars, t_pc, csv, team_data,
                 player_data, app, p_in, p_out, sel, lg, sd>>

\* the frame the call of line 101 or 132 gets
CachedFrame ==
  IF "load_shot_clock_data" \in cached THEN loaded ELSE load_shot_clock_data(csv)

\* get_team_data(): the first call
GetTeamData ==
  /\ t_pc = "file"
  /\ "get_team_data" \notin cached
  /\ team_data' = get_team_data(CachedFrame)
  /\ loaded' = CachedFrame
  /\ cached' = cached \cup {"load_shot_clock_data", "get_team_data"}
  /\ UNCHANGED <<teamvars, scrapevars, fetchvars, t_pc, csv, player_data, app,
                 p_in, p_out, sel, lg, sd>>

\* get_player_data(): the first call
GetPlayerData ==
  /\ t_pc = "file"
  /\ "get_player_data" \notin cached
  /\ player_data' = get_player_data(CachedFrame)
  /\ loaded' = WithPtsPerFga(CachedFrame)
  /\ cached' = cached \cup {"load_shot_clock_data", "get_player_data"}
  /\ UNCHANGED <<teamvars, scrapevars, fetchvars, t_pc, csv, team_data, app,
                 p_in, p_out, sel, lg, sd>>

\* safe_div on two Series of one index
SafeDiv ==
  /\ t_pc = "idle"
  /\ \E n \in 1..MaxSeries :
       \E numerator \in [1..n -> SeriesCells], denominator \in [1..n -> SeriesCells] :
         sd' = [ called |-> TRUE, numerator |-> numerator,
                 denominator |-> denominator,
                 result |-> [i \in 1..n |-> safe_div(numerator[i], denominator[i])] ]
  /\ t_pc' = "divided"
  /\ UNCHANGED <<teamvars, scrapevars, fetchvars, csv, loaded, team_data,
                 player_data, app, p_in, p_out, cached, sel, lg>>

\* strategy 2 on one performance log
CapturedLog ==
  /\ t_pc = "idle"
  /\ \E log \in SeqsUpTo(CapturedResponses, MaxLog) :
       lg' = [ called |-> TRUE, log |-> log,
               read |-> BodiesRead(log, SHOT_CLOCK_RANGES[1]),
               out |-> Strategy2(log, FALSE, SHOT_CLOCK_RANGES[1]) ]
  /\ t_pc' = "examined"
  /\ UNCHANGED <<teamvars, scrapevars, fetchvars, csv, loaded, team_data,
                 player_data, app, p_in, p_out, cached, sel, sd>>

\* strategies 1 and 4 on one rendered page: the table strategy 1 selects
\* (lines 396-429), the frame it returns, the table the sweep returns its
\* frame from and that frame
TableStrategies ==
  /\ t_pc = "idle"
  /\ \E page \in SeqsUpTo(RenderedTables, MaxTables) :
       sel' = [ called |-> TRUE, page |-> page,
                stats_table |-> SelectStatsTable(page),
                out1 |-> Strategy1(page, FALSE, SHOT_CLOCK_RANGES[1], "regular"),
                src4 |-> Strategy4Source(page),
                out4 |-> Strategy4(page, FALSE, SHOT_CLOCK_RANGES[1], "regular") ]
  /\ t_pc' = "selected"
  /\ UNCHANGED <<teamvars, scrapevars, fetchvars, csv, loaded, team_data,
                 player_data, app, p_in, p_out, cached, lg, sd>>

NextTables ==
  \/ CsvOnDisk
  \/ AppMain
  \/ PrepareDataframe

\* neither the dashboard nor _prepare_dataframe reads the upstream site
InitTables == Init /\ upstream = "short"

SpecTables == InitTables /\ [][NextTables]_vars

\* the stand-alone calls
NextUnits ==
  \/ TableStrategies
  \/ CapturedLog
  \/ SafeDiv
  \/ CsvOnDisk
  \/ LoadShotClockData
  \/ GetTeamData
  \/ GetPlayerData

SpecUnits == InitTables /\ [][NextUnits]_vars

(***************************************************************************)
(* Properties                                                              *)
(***************************************************************************)
LastOf(q) == q[Len(q)]

\* a frame whose source URL or cells carry a Cup marker
CupMarked(f) == f.url = "cup" \/ "cup" \in f.text

\* the SHOT_CLOCK_RANGE tags of a list of frames
TagsOf(fs) == [i \in 1..Len(fs) |-> fs[i].tag]

RECURSIVE OkRanges(_)
\* the first n ranges whose outcome is "ok", in declared order
OkRanges(n) ==
  IF n = 0 THEN <<>>
  ELSE IF outcome[n] = "ok" THEN Append(OkRanges(n - 1), SHOT_CLOCK_RANGES[n])
  ELSE OkRanges(n - 1)

\* the attempts of the current range and what they gave are as the fixed
\* priority order demands
AttemptsInOrder ==
  /\ Len(returned) = Len(tried)
  /\ \/ \A i \in 1..Len(tried) : tried[i] = i
     \/ tried = <<5>>
  /\ \A i \in 1..(Len(returned) - 1) : ~returned[i]
  /\ (returned # <<>> /\ LastOf(returned)) =>
       (pc = "check" /\ df.kind = "frame" /\ df.tag = Range)
  /\ (pc = "check" /\ df # None) => (returned # <<>> /\ LastOf(returned))

C2_CupRejectionFallsThrough ==
  [][ (pc = "check" /\ pc' = "sleep" /\ outcome'[idx] = "rejected") =>
        LastOf(tried) = 5 ]_vars

\* C3: no frame of all_data comes from a source whose URL or cells carry a Cup
\* marker, also when the cells hold the word "regular" as well.
C3_NoCupFrameCollected ==
  \A i \in 1..Len(all_data) : ~CupMarked(all_data[i])

\* C4: every frame accepted for a range has rows, more than the minimum number
\* of columns and an identifying column, whichever strategy produced it.
C4_AcceptedFramesPlausible ==
  \A i \in 1..Len(all_data) :
    /\ all_data[i].rows > 0
    /\ all_data[i].cols > MinColsTable
    /\ all_data[i].idcol

\* C5: a range for which every strategy failed does not end the run: all six
\* ranges are processed, and the final table holds exactly the frames of the
\* ranges that succeeded, in the declared order of the ranges.
C5_PartialFailureContinues ==
  /\ pc # "crashed"
  /\ (pc \in {"load", "s1", "s2", "s3", "s4", "api", "check"}) =>
       TagsOf(all_data) = OkRanges(idx - 1)
  /\ (pc \in {"sleep", "concat", "done"}) => TagsOf(all_data) = OkRanges(idx)
  /\ (pc = "done") =>
       /\ \A i \in 1..NumRanges : outcome[i] # "pending"
       /\ TagsOf(all_data) = OkRanges(NumRanges)
       /\ (all_data # <<>> => output_file = [written |-> TRUE, rows |-> all_data])

\* C5 witness: the run ended with a failed range before and after a collected one
C5_Witness ==
  /\ pc = "done"
  /\ outcome[1] = "failed"
  /\ outcome[2] = "ok"
  /\ outcome[3] = "failed"
  /\ outcome[6] = "ok"
  /\ Len(all_data) >= 2

\* C6 (as claimed): when no range succeeded the run ends in an error raised to
\* the caller and writes no file.
C6_HardErrorOnTotalFailure ==
  (pc = "done" /\ all_data = <<>>) => (ret = "raised" /\ ~output_file.written)

\* C6 (amended): when no range succeeded main returns None to its caller,
\* raising nothing, and writes no file.
C6_ReturnsNoneOnTotalFailure ==
  (pc = "done" /\ all_data = <<>>) => (ret = "None" /\ output_file = NoFile)

\* C6 witness: the run ended with nothing collected
C6_Witness ==
  /\ pc = "done"
  /\ all_data = <<>>
  /\ \E i \in 1..NumRanges : outcome[i] = "rejected"
  /\ \E i \in 1..NumRanges : outcome[i] = "failed"

\* C7: when the last request sent upstream belongs to an earlier range, a
\* delay has passed since it, whatever the outcome of that range.
C7_DelayBetweenRanges ==
  (lastfetch # 0 /\ lastfetch # idx) => slept

\* C7 witness: the fourth range is about to be fetched after a collected, a
\* failed and a rejected range
C7_Witness ==
  /\ pc = "load"
  /\ idx = 4
  /\ outcome[1] = "ok"
  /\ outcome[2] = "failed"
  /\ outcome[3] = "rejected"
  /\ lastfetch = 3
  /\ slept

NoDuplicates(q) == \A i, j \in 1..Len(q) : i # j => q[i] # q[j]

EachRangeOnce ==
  /\ \A i \in 1..NumRanges : processed[i] <= 1
  /\ \A i \in 1..NumRanges : i < idx => (processed[i] = 1 /\ outcome[i] # "pending")
  /\ \A i \in 1..NumRanges : i > idx => (processed[i] = 0 /\ outcome[i] = "pending")
  /\ NoDuplicates(tried)
  /\ (pc \in {"s1", "s2", "s3", "s4", "api", "check"}) =>
       (processed[idx] = 1 /\ outcome[idx] = "pending")
  /\ (pc \in {"concat", "done"}) =>
       (idx = NumRanges /\ \A i \in 1..NumRanges : processed[i] = 1)

\* C8: in one run each of the six ranges is processed exactly once, each
\* strategy is attempted at most once per range, a range that failed is not
\* attempted again, and the run ends after the sixth range.
C8_EachRangeOnceAndTerminates ==
  /\ []EachRangeOnce
  /\ (pc = "load") ~> (pc = "done")

\* C8 witness: the run ended although three ranges gave no frame
C8_Witness ==
  /\ pc = "done"
  /\ outcome[2] = "failed"
  /\ outcome[4] = "rejected"
  /\ outcome[6] = "failed"

\* where the code goes on after strategy k gave nothing
AfterFailure(k) ==
  CASE k = 1 -> "s2"
    [] k = 2 -> "s3"
    [] k = 3 -> "s4"
    [] k = 4 -> "api"
    [] k = 5 -> "check"

\* C9: scrape_with_selenium, scrape_with_requests_api and get_nba_api_data give
\* a frame or None for every upstream outcome, no exception leaves them, and an
\* exception inside one strategy is followed by the next strategy.
C9_NoExceptionEscapes ==
  /\ pc # "crashed"
  /\ ret # "raised"
  /\ probe.kind \in {"none", "frame"}
  /\ df.kind \in {"none", "frame"}
  /\ (tried # <<>> /\ lastexc) =>
       (pc = AfterFailure(LastOf(tried)) /\ df = None)

\* C9 witness: every strategy was attempted and the direct API call raised inside
C9_Witness ==
  /\ pc = "check"
  /\ tried = <<1, 2, 3, 4, 5>>
  /\ lastexc
  /\ df = None

\* a response that is not 2xx, or whose envelope is malformed
IsFailure(e) ==
  /\ e # NoResponse
  /\ e.exc \/ e.status < 200 \/ e.status > 299 \/ e.kind # "json"

\* C10: in fetch_shot_clock_breakdown a non-2xx response or a malformed
\* envelope for any pair ends the whole call in an error: no table is
\* returned, whatever was fetched before, and no further pair is requested.
C10_FetchErrorPropagates ==
  IsFailure(response) =>
    /\ f_pc = "done"
    /\ f_ret \notin {"running", "table"}
    /\ table = <<>>

\* a 2xx/3xx response of the stats endpoint whose envelope lacks the result
\* sets or headers/rowSet
EnvelopeMismatch(e) ==
  e # NoResponse /\ ~e.exc /\ ~raise_for_status(e) /\ ExtractRowsRaises(e)

\* the scraper met a schema mismatch and went on: nothing raised, and unless a
\* later response of the same strategy gave a frame the next strategy follows
ScraperGoesOnAfterMismatch ==
  schemafail =>
    /\ pc # "crashed"
    /\ ret # "raised"
    /\ probe.kind \in {"none", "frame"}
    /\ (tried # <<>> /\ ~LastOf(returned)) =>
         (pc = AfterFailure(LastOf(tried)) /\ df = None)

\* C11 (as claimed): in every fetch path a payload that lacks the expected
\* result sets or headers/rowSet fails only the current attempt; the scraper
\* goes on with the next strategy and fetch_shot_clock_breakdown with the
\* next pair.
C11_SchemaMismatchFailsOnlyAttempt ==
  /\ ScraperGoesOnAfterMismatch
  /\ (EnvelopeMismatch(response) /\ Len(requests) < Len(AllPairs)) => f_pc = "loop"

\* C11 (amended): in the scraper such a payload fails only the current
\* attempt and the next strategy (after the last one, the next range)
\* follows; in fetch_shot_clock_breakdown it ends the whole call in an
\* NBAStatsError and no table is returned.
C11_SchemaMismatchScraperOnly ==
  /\ ScraperGoesOnAfterMismatch
  /\ EnvelopeMismatch(response) =>
       (f_pc = "done" /\ f_ret = "NBAStatsError" /\ table = <<>>)

\* C11 witness: strategy 3 matched a payload without result sets, gave no
\* frame, and strategy 4 is next
C11_Witness ==
  /\ pc = "s4"
  /\ tried = <<1, 2, 3>>
  /\ schemafail
  /\ ~lastexc
  /\ df = None

(***************************************************************************)
(* Aggregate tables                                                        *)
(***************************************************************************)
RowsOf(frame, column, v) == SelectSeq(frame, LAMBDA r : r[column] = v)

TeamRangeRows(frame, team, rng) ==
  SelectSeq(frame, LAMBDA r : /\ r.PLAYER_LAST_TEAM_ABBREVIATION = team
                              /\ r.SHOT_CLOCK_RANGE = rng)

HasAttempts(rows, fga) == RLess(Whole(0), Sum(Col(rows, fga)))

SumsRatio(rows, num, den) == RDiv(Sum(Col(rows, num)), Sum(Col(rows, den)))

EfgOfSums(rows, fgm, fg3m, fga) ==
  RDiv(RAdd(Sum(Col(rows, fgm)), RMul(Num(1, 2), Sum(Col(rows, fg3m)))),
       Sum(Col(rows, fga)))

\* C12: every ratio of every aggregate table (FG%, eFG%, points per
\* attempt; the groups of get_team_data, the per-range and per-team tables
\* of app.main) is the ratio of the summed counts of the rows it
\* aggregates, never the mean of their ratios.
C12_RatiosOfSummedCounts ==
  app.built =>
    /\ \A i \in 1..Len(team_data) :
         LET t == team_data[i]
             g == TeamRangeRows(loaded, t.PLAYER_LAST_TEAM_ABBREVIATION,
                                t.SHOT_CLOCK_RANGE)
         IN HasAttempts(g, "FGA") =>
              /\ t.FG_PCT = SumsRatio(g, "FGM", "FGA")
              /\ t.EFG_PCT = EfgOfSums(g, "FGM", "FG3M", "FGA")
              /\ t.PTS_PER_FGA = SumsRatio(g, "POINTS", "FGA")
    /\ \A i \in 1..Len(app.team_by_range) :
         LET t == app.team_by_range[i]
             g == RowsOf(app.team_filtered, "SHOT_CLOCK_RANGE", t.SHOT_CLOCK_RANGE)
         IN HasAttempts(g, "TOTAL_FGA") =>
              /\ t.FG_PCT = Percent(SumsRatio(g, "TOTAL_FGM", "TOTAL_FGA"))
              /\ t.PTS_PER_FGA = SumsRatio(g, "TOTAL_POINTS", "TOTAL_FGA")
              /\ t.EFG_PCT = Percent(EfgOfSums(g, "TOTAL_FGM", "TOTAL_FG3M",
                                               "TOTAL_FGA"))
    /\ \A i \in 1..Len(app.team_comparison) :
         LET t == app.team_comparison[i]
             g == RowsOf(app.team_filtered, "PLAYER_LAST_TEAM_ABBREVIATION",
                         t.PLAYER_LAST_TEAM_ABBREVIATION)
         IN HasAttempts(g, "TOTAL_FGA") =>
              /\ t.FG_PCT = Percent(SumsRatio(g, "TOTAL_FGM", "TOTAL_FGA"))
              /\ t.PTS_PER_FGA = SumsRatio(g, "TOTAL_POINTS", "TOTAL_FGA")
    /\ \A i \in 1..Len(app.player_by_range) :
         LET t == app.player_by_range[i]
             g == RowsOf(app.player_filtered, "SHOT_CLOCK_RANGE", t.SHOT_CLOCK_RANGE)
         IN HasAttempts(g, "FGA") =>
              /\ t.FG_PCT = Percent(SumsRatio(g, "FGM", "FGA"))
              /\ t.PTS_PER_FGA = SumsRatio(g, "POINTS", "FGA")
              /\ t.EFG_PCT = Percent(EfgOfSums(g, "FGM", "FG3M", "FGA"))

\* C13: in every group of get_team_data and every row of get_player_data
\* whose denominator is zero, the ratio (FG_PCT, FG3_PCT, EFG_PCT,
\* PTS_PER_FGA) is the undefined value: not 0 and not infinite.
C13_ZeroDenominatorUndefined ==
  app.built =>
    /\ \A i \in 1..Len(team_data) :
         /\ team_data[i].TOTAL_FGA = Whole(0) =>
              /\ team_data[i].FG_PCT = Nan
              /\ team_data[i].EFG_PCT = Nan
              /\ team_data[i].PTS_PER_FGA = Nan
         /\ team_data[i].TOTAL_FG3A = Whole(0) => team_data[i].FG3_PCT = Nan
    /\ \A i \in 1..Len(player_data) :
         player_data[i].FGA = Whole(0) => player_data[i].PTS_PER_FGA = Nan

\* the eFG% of every group of get_team_data that has attempts
TeamEfgBySums ==
  \A i \in 1..Len(team_data) :
    LET g == TeamRangeRows(loaded, team_data[i].PLAYER_LAST_TEAM_ABBREVIATION,
                           team_data[i].SHOT_CLOCK_RANGE)
    IN HasAttempts(g, "FGA") =>
         team_data[i].EFG_PCT = EfgOfSums(g, "FGM", "FG3M", "FGA")

OverallShown == app.built /\ app.tab1

\* C14 as stated: in every group of get_team_data with attempts, and in
\* the overall metric of app.main, eFG% is (makes + 0.5 * threes) /
\* attempts of the summed counts: 0.60 for 10 makes, 4 threes, 20 attempts.
C14_EfgFormula ==
  app.built =>
    /\ TeamEfgBySums
    /\ (OverallShown /\ HasAttempts(app.team_filtered, "TOTAL_FGA")) =>
         app.overall.efg_pct =
           EfgOfSums(app.team_filtered, "TOTAL_FGM", "TOTAL_FG3M", "TOTAL_FGA")

\* C14 amended: the groups of get_team_data hold that fraction, the overall
\* metric of app.main holds it as a percentage (100 times the fraction).
C14_EfgFormulaOverallInPercent ==
  app.built =>
    /\ TeamEfgBySums
    /\ (OverallShown /\ HasAttempts(app.team_filtered, "TOTAL_FGA")) =>
         app.overall.efg_pct =
           Percent(EfgOfSums(app.team_filtered, "TOTAL_FGM", "TOTAL_FG3M",
                             "TOTAL_FGA"))

\* 10 makes, 4 threes, 20 attempts: 0.60 in the group, 60 in the metric
C14_Witness ==
  /\ OverallShown
  /\ Len(team_data) = 1
  /\ team_data[1].TOTAL_FGM = Whole(10)
  /\ team_data[1].TOTAL_FG3M = Whole(4)
  /\ team_data[1].TOTAL_FGA = Whole(20)
  /\ team_data[1].EFG_PCT = Num(3, 5)
  /\ app.overall.efg_pct = Whole(60)

\* the rows i < j of a table never hold a later range before an earlier one
InDeclaredOrder(t) ==
  \A i, j \in 1..Len(t) :
    i < j => CatCode(t[i].SHOT_CLOCK_RANGE, SHOT_CLOCK_RANGES)
               <= CatCode(t[j].SHOT_CLOCK_RANGE, SHOT_CLOCK_RANGES)

\* the same within the rows of each value of a name column
InDeclaredOrderWithin(t, name) ==
  \A i, j \in 1..Len(t) :
    (i < j /\ t[i][name] = t[j][name]) =>
      CatCode(t[i].SHOT_CLOCK_RANGE, SHOT_CLOCK_RANGES)
        <= CatCode(t[j].SHOT_CLOCK_RANGE, SHOT_CLOCK_RANGES)

\* C15: whatever the order of the rows of the file, the rows of every
\* table grouped or sorted by shot-clock range (get_team_data within each
\* team, team_by_range, player_by_range, the detailed tables of app.main)
\* are in the declared order 24-22, 22-18, 18-15, 15-7, 7-4, 4-0.
C15_DeclaredOrder ==
  app.built =>
    /\ InDeclaredOrderWithin(team_data, "PLAYER_LAST_TEAM_ABBREVIATION")
    /\ InDeclaredOrder(app.team_by_range)
    /\ InDeclaredOrder(app.player_by_range)
    /\ InDeclaredOrderWithin(app.team_display, "PLAYER_LAST_TEAM_ABBREVIATION")
    /\ InDeclaredOrderWithin(app.player_display, "PLAYER_NAME")

\* a file of one team whose rows come in neither the declared order nor
\* the order of the ranges' text ("4-0" before "7-4")
C15_Witness ==
  /\ app.built
  /\ Len(csv) = 3
  /\ csv[1].SHOT_CLOCK_RANGE = "4-0"
  /\ csv[2].SHOT_CLOCK_RANGE = "7-4"
  /\ csv[3].SHOT_CLOCK_RANGE = "24-22"
  /\ \A i \in 1..3 : csv[i].PLAYER_LAST_TEAM_ABBREVIATION = "PHI"
  /\ Len(app.team_display) = 3
  /\ Len(app.team_by_range) = 3
  /\ Len(app.player_display) = 2
  /\ Len(app.player_by_range) = 2

\* the rows of the loaded file that pass the sidebar's range and team filter
UnderlyingRows ==
  SelectSeq(loaded, LAMBDA r :
    /\ IsIn(r.SHOT_CLOCK_RANGE, app.inp.selected_ranges)
    /\ IsIn(r.PLAYER_LAST_TEAM_ABBREVIATION, app.inp.selected_teams))

\* C16: summing the TOTAL_ counts of get_team_data's team x range groups
\* per range (team_by_range) or per team (team_comparison) gives the sums
\* of FGM, FGA, FG3M and POINTS of the underlying rows of that range or
\* team, and the ratios recomputed from either are the same.
C16_TwoStepEqualsOneStep ==
  app.built =>
    /\ \A i \in 1..Len(app.team_by_range) :
         LET t == app.team_by_range[i]
             g == RowsOf(UnderlyingRows, "SHOT_CLOCK_RANGE", t.SHOT_CLOCK_RANGE)
         IN /\ t.FGM = Sum(Col(g, "FGM"))
            /\ t.FGA = Sum(Col(g, "FGA"))
            /\ t.FG3M = Sum(Col(g, "FG3M"))
            /\ t.POINTS = Sum(Col(g, "POINTS"))
            /\ t.FG_PCT = fillna(Percent(SumsRatio(g, "FGM", "FGA")), Whole(0))
            /\ t.PTS_PER_FGA = fillna(SumsRatio(g, "POINTS", "FGA"), Whole(0))
    /\ \A i \in 1..Len(app.team_comparison) :
         LET t == app.team_comparison[i]
             g == RowsOf(UnderlyingRows, "PLAYER_LAST_TEAM_ABBREVIATION",
                         t.PLAYER_LAST_TEAM_ABBREVIATION)
         IN /\ t.TOTAL_FGM = Sum(Col(g, "FGM"))
            /\ t.TOTAL_FGA = Sum(Col(g, "FGA"))
            /\ t.TOTAL_POINTS = Sum(Col(g, "POINTS"))
            /\ t.FG_PCT = fillna(Percent(SumsRatio(g, "FGM", "FGA")), Whole(0))
            /\ t.PTS_PER_FGA = fillna(SumsRatio(g, "POINTS", "FGA"), Whole(0))

\* three rows, two teams in one range and one team in two ranges: each
\* second step sums more than one group
C16_Witness ==
  /\ app.built
  /\ Len(loaded) = 3
  /\ Len(team_data) = 3
  /\ Len(app.team_by_range) = 2
  /\ Len(app.team_comparison) = 2
  /\ app.team_by_range[1].FGA = Whole(15)
  /\ \E i \in 1..2 : app.team_comparison[i].TOTAL_FGA = Whole(30)

(***************************************************************************)
(* Normalisation                                                           *)
(***************************************************************************)
Unparseable(cell) == cell = Text \/ cell = Nan

\* the output column of _prepare_dataframe of each input column (rename_map)
Renamed ==
  [ GP |-> "games_played", FGM |-> "fgm", FGA |-> "fga", FG2M |-> "fg2m",
    FG3M |-> "fg3m", FG3A |-> "fg3a", FG_PCT |-> "fg_pct",
    FGA_FREQUENCY |-> "fga_frequency", FG2A_FREQUENCY |-> "fg2a_frequency",
    FG3A_FREQUENCY |-> "fg3a_frequency" ]

\* C17: where a cell of a count column (makes, attempts, games) is missing
\* or not a number the coerced value is zero, and where a cell of a ratio
\* column is, the coerced value is the undefined value; in
\* load_shot_clock_data and in _prepare_dataframe.
C17_CoercionPolicy ==
  /\ t_pc = "shown" =>
       \A i \in 1..Len(csv) :
         /\ \A c \in {"FGM", "FGA", "FG3M", "FG3A", "FG2M", "FG2A", "GP"} :
              Unparseable(csv[i][c]) => loaded[i][c] = Whole(0)
         /\ \A c \in {"FG_PCT", "EFG_PCT"} :
              Unparseable(csv[i][c]) => loaded[i][c] = Nan
  /\ t_pc = "prepared" =>
       \A i \in 1..Len(p_in) :
         /\ \A c \in {"FGM", "FGA", "FG2M", "FG3M", "FG3A", "GP"} :
              Unparseable(p_in[i][c]) => p_out[i][Renamed[c]] = Whole(0)
         /\ \A c \in {"FG_PCT", "FGA_FREQUENCY", "FG2A_FREQUENCY",
                      "FG3A_FREQUENCY"} :
              Unparseable(p_in[i][c]) => p_out[i][Renamed[c]] = Nan

FrequencyColumns == {"FGA_FREQUENCY", "FG2A_FREQUENCY", "FG3A_FREQUENCY"}

InUnitInterval(v) == v.k = "num" /\ v.n <= v.d

\* the maximum of the coerced column exceeds 1
MaxExceedsOne(frame, column) ==
  \E i \in 1..Len(frame) :
    /\ to_numeric(frame[i][column]).k = "num"
    /\ to_numeric(frame[i][column]).n > to_numeric(frame[i][column]).d

\* every value of the column is on the 0-100 scale (which holds the 0-1 scale)
OnScale(frame, column) ==
  \A i \in 1..Len(frame) :
    to_numeric(frame[i][column]).k = "num" =>
      to_numeric(frame[i][column]).n <= 100 * to_numeric(frame[i][column]).d

\* C18: after _prepare_dataframe every defined value of fga_frequency,
\* fg2a_frequency and fg3a_frequency lies in [0, 1] when the input column
\* is on the 0-100 or the 0-1 scale; a column is divided by 100, all of
\* it, exactly when its maximum exceeds 1, each column by its own maximum.
C18_FrequenciesAreFractions ==
  t_pc = "prepared" =>
    \A c \in FrequencyColumns : \A i \in 1..Len(p_in) :
      /\ p_out[i][Renamed[c]] =
           IF MaxExceedsOne(p_in, c)
           THEN RDiv(to_numeric(p_in[i][c]), Whole(100))
           ELSE to_numeric(p_in[i][c])
      /\ (OnScale(p_in, c) /\ p_out[i][Renamed[c]] # Nan) =>
           InUnitInterval(p_out[i][Renamed[c]])

\* a frame with a column in percent that also holds a value below 1, next
\* to a column of fractions: the first is divided as a whole, the other not
C18_Witness ==
  /\ t_pc = "prepared"
  /\ Len(p_in) = 2
  /\ p_in[1].FGA_FREQUENCY = Whole(45)
  /\ p_in[2].FGA_FREQUENCY = Num(1, 2)
  /\ p_out[1].fga_frequency = Num(9, 20)
  /\ p_out[2].fga_frequency = Num(1, 200)
  /\ p_in[1].FG3A_FREQUENCY = Num(2, 5)
  /\ p_out[1].fg3a_frequency = Num(2, 5)

\* numerator / denominator where the denominator is a number other than 0
\* and the numerator is defined, the undefined value otherwise
QuotientOrUndefined(numerator, denominator) ==
  IF numerator.k = "num" /\ denominator.k = "num" /\ denominator.n # 0
  THEN Num(numerator.n * denominator.d, numerator.d * denominator.n)
  ELSE Nan

\* C19: every normalised row has points = 2 * two-point makes + 3 *
\* three-point makes, after _prepare_dataframe and after
\* load_shot_clock_data; after _prepare_dataframe points_per_shot is
\* points / fga and fg3_rate is fg3a / fga, undefined where fga is 0.
C19_PointsAndRates ==
  /\ t_pc = "prepared" =>
       \A i \in 1..Len(p_out) :
         /\ p_out[i].points = RAdd(RMul(Whole(2), p_out[i].fg2m),
                                   RMul(Whole(3), p_out[i].fg3m))
         /\ p_out[i].points_per_shot =
              QuotientOrUndefined(p_out[i].points, p_out[i].fga)
         /\ p_out[i].fg3_rate = QuotientOrUndefined(p_out[i].fg3a, p_out[i].fga)
  /\ t_pc = "shown" =>
       \A i \in 1..Len(loaded) :
         loaded[i].POINTS = RAdd(RMul(Whole(2), loaded[i].FG2M),
                                 RMul(Whole(3), loaded[i].FG3M))

\* a row with 6 two-point and 4 three-point makes in 20 attempts, and a
\* row with makes whose attempts read 0
C19_Witness ==
  /\ t_pc = "prepared"
  /\ Len(p_out) = 2
  /\ p_out[1].fg2m = Whole(6) /\ p_out[1].fg3m = Whole(4)
  /\ p_out[1].points = Whole(24)
  /\ p_out[1].points_per_shot = Num(6, 5)
  /\ p_out[1].fg3_rate = Num(2, 5)
  /\ p_out[2].fga = Whole(0) /\ p_out[2].points = Whole(5)
  /\ p_out[2].points_per_shot = Nan

(***************************************************************************)
(* Partition keys                                                          *)
(***************************************************************************)
\* C20: every row of the output of an acquisition run carries the partition
\* key of the request that fetched it: a frame a scraper strategy returns,
\* and the frame main collects and writes, is tagged with the range passed
\* to the strategy; the rows fetch_shot_clock_breakdown keeps of a response
\* are tagged with the general range and shot-clock range of its request.
C20_RowsCarryPartitionKey ==
  [][ /\ (returned' # returned /\ returned' # <<>> /\ LastOf(returned')) =>
           df'.tag = SHOT_CLOCK_RANGES[idx]
      /\ (all_data' # all_data) =>
           /\ all_data' = Append(all_data, df)
           /\ df.tag = SHOT_CLOCK_RANGES[idx]
      /\ (output_file' # output_file) => output_file'.rows = all_data
      /\ (frames' # frames /\ frames' # <<>>) =>
           /\ Len(frames') = Len(frames) + 1
           /\ \A i \in 1..Len(frames) : frames'[i] = frames[i]
           /\ \A i \in 1..Len(LastOf(frames')) :
                /\ LastOf(frames')[i].general_range = LastOf(requests')[1]
                /\ LastOf(frames')[i].shot_clock_range = LastOf(requests')[2]
      /\ (table' # table) => table' = Concat(frames) ]_vars

\* a call of fetch_shot_clock_breakdown that returned the rows of two
\* requests with different keys
C20_Witness ==
  /\ f_pc = "done"
  /\ f_ret = "table"
  /\ Len(requests) >= 2
  /\ Len(table) >= 2
  /\ <<table[1].general_range, table[1].shot_clock_range>> = requests[1]
  /\ <<LastOf(table).general_range, LastOf(table).shot_clock_range>>
       = LastOf(requests)
  /\ requests[1] # LastOf(requests)

(***************************************************************************)
(* The table heuristic of strategies 1 and 4                               *)
(***************************************************************************)
\* the three conditions of a stats table: a stat-column token in its text,
\* no calendar token, more than MinRows rows
IsStatsTable(t) ==
  /\ t.text \cap {"stat", "rebast"} # {}
  /\ t.text \cap {"sunmon", "day", "month"} = {}
  /\ t.trs > MinRows

\* C21: the table a rendered-page strategy (1 or 4) takes its frame from
\* has a stat-column token in its text, no calendar token (day of week,
\* month name) and more than 10 rows; no other table is the source of a
\* frame.
C21_OnlyStatsTableIsSource ==
  sel.called =>
    /\ sel.out1 # None => IsStatsTable(sel.page[sel.stats_table])
    /\ sel.out4 # None => IsStatsTable(sel.page[sel.src4])

\* the tables of a page that qualify
Qualifying(page) == { i \in 1..Len(page) : IsStatsTable(page[i]) }

\* C22: when more than one table of the page qualifies, the frame comes
\* from the qualifying table with the most rows, whatever the page order.
C22_MostRowsPreferred ==
  (sel.called /\ Cardinality(Qualifying(sel.page)) > 1) =>
    /\ sel.out1 # None =>
         \A j \in Qualifying(sel.page) :
           sel.page[j].trs <= sel.page[sel.stats_table].trs
    /\ sel.out4 # None =>
         \A j \in Qualifying(sel.page) :
           sel.page[j].trs <= sel.page[sel.src4].trs

(***************************************************************************)
(* Frames are not changed in place                                         *)
(***************************************************************************)
\* C23: after get_team_data or get_player_data has been called, the table
\* a call of load_shot_clock_data returns has the columns and values it
\* had when it was first returned: those of the file, loaded.
C23_LoadedTableUnchanged ==
  (t_pc = "file" /\ "load_shot_clock_data" \in cached) =>
    loaded = load_shot_clock_data(csv)

(***************************************************************************)
(* safe_div                                                                *)
(***************************************************************************)
\* C24: element by element, safe_div gives the quotient where the
\* denominator is a number other than zero and the undefined value where
\* it is zero, whether the numerator is zero, positive or negative; no
\* element of the result is infinite.
C24_SafeDivElementwise ==
  sd.called =>
    /\ Len(sd.result) = Len(sd.numerator)
    /\ \A i \in 1..Len(sd.result) :
         LET x == sd.numerator[i]
             y == sd.denominator[i]
         IN /\ sd.result[i].k \in {"num", "nan"}
            /\ (x.k = "num" /\ y.k = "num" /\ y.n # 0) =>
                 /\ sd.result[i].k = "num"
                 /\ sd.result[i].n * y.n * x.d = x.n * y.d * sd.result[i].d
            /\ (y.k = "num" /\ y.n = 0) => sd.result[i] = Nan

\* a negative, a zero and a positive numerator over zero, all undefined
C24_Witness ==
  /\ sd.called
  /\ sd.numerator = <<Whole(0 - 3), Whole(0), Whole(2)>>
  /\ sd.denominator = <<Whole(0), Whole(0), Whole(0)>>
  /\ sd.result = <<Nan, Nan, Nan>>

\* quotients of either sign next to a zero denominator
C24_QuotientWitness ==
  /\ sd.called
  /\ sd.numerator = <<Whole(2), Whole(0 - 3), Whole(2)>>
  /\ sd.denominator = <<Whole(0 - 3), Whole(2), Whole(0)>>
  /\ sd.result = <<Num(0 - 2, 3), Num(0 - 3, 2), Nan>>

(***************************************************************************)
(* The season type of captured responses                                   *)
(***************************************************************************)
\* the URL shows Regular Season: no Cup marker, and a SeasonType parameter
\* that holds 'regular' or, without the parameter, 'regular' in the URL
ShowsRegularSeason(u) ==
  /\ ~u.cup
  /\ \/ u.seasonType = "regular"
     \/ u.seasonType = "absent" /\ u.regular

\* fewer than MaxExamined responses of the log are newer than r
AmongMostRecent(log, r) ==
  Cardinality({ j \in 1..Len(log) : log[j].timestamp > r.timestamp }) < MaxExamined

\* C29: strategy 2 reads the body of a response only if its URL has no Cup
\* marker and shows Regular Season; it examines at most the three most
\* recent responses, newest first, and returns a frame only from a
\* response it read that holds more than 10 rows.
C29_OnlyRegularSeasonBodiesRead ==
  lg.called =>
    /\ Len(lg.read) <= MaxExamined
    /\ \A i \in 1..Len(lg.read) :
         /\ ShowsRegularSeason(lg.read[i].url)
         /\ AmongMostRecent(lg.log, lg.read[i])
         /\ \A j \in 1..(i - 1) : lg.read[j].timestamp >= lg.read[i].timestamp
    /\ lg.out # None =>
         /\ lg.read # <<>>
         /\ lg.out.rows > MinRows
         /\ lg.out.rows = LastOf(lg.read).body.frame.rows

\* four responses: the three newest are without a season type, with a Cup
\* marker and with 10 rows, the oldest shows Regular Season and holds 11
\* rows; one body is read and no frame is returned
C29_Witness ==
  /\ lg.called
  /\ Len(lg.log) = 4
  /\ lg.log[1].timestamp = 1
  /\ ShowsRegularSeason(lg.log[1].url)
  /\ lg.log[1].body.frame.rows > MinRows
  /\ \E i \in 2..4 : lg.log[i].url.cup
  /\ \E i \in 2..4 : lg.log[i].url.seasonType = "absent" /\ ~lg.log[i].url.regular
  /\ Len(lg.read) = 1
  /\ lg.read[1].body.frame.rows = MinRows
  /\ lg.out = None

(***************************************************************************)
(* fetch_shot_clock_breakdown: the pairs and their rows                    *)
(***************************************************************************)
\* the call is over and every pair of its arguments got a response that
\* raised nothing
AllRequestsSucceeded ==
  /\ f_pc = "done"
  /\ Len(hits) = Len(f_args.general_ranges) * Len(f_args.shot_clock_ranges)

\* the place of request i in the two argument sequences
GeneralOf(i) ==
  f_args.general_ranges[((i - 1) \div Len(f_args.shot_clock_ranges)) + 1]

ShotClockOf(i) ==
  f_args.shot_clock_ranges[((i - 1) % Len(f_args.shot_clock_ranges)) + 1]

\* the rows of TEAM_ID that the responses held, each with the pair of its
\* request, in the order of the requests
RowsOfHits ==
  Concat([i \in 1..Len(hits) |->
            [j \in 1..hits[i] |->
               [team_id |-> TEAM_ID, shot_clock_range |-> ShotClockOf(i),
                general_range |-> GeneralOf(i)]]])

\* C25: when every request succeeded the call raises NBAStatsError exactly
\* when no response held a row of TEAM_ID; a pair without such a row is
\* passed over without an error, and the table returned holds exactly the
\* TEAM_ID rows of the other pairs.
C25_ErrorIffNoTeamRow ==
  /\ (f_pc = "loop" /\ Len(hits) = Len(requests)) => f_ret = "running"
  /\ AllRequestsSucceeded =>
       /\ f_ret \in {"NBAStatsError", "table"}
       /\ f_ret = "NBAStatsError" <=> (\A i \in 1..Len(hits) : hits[i] = 0)
       /\ f_ret = "table" =>
            /\ table = RowsOfHits
            /\ \A i \in 1..Len(table) : table[i].team_id = TEAM_ID

\* four pairs, the first and the third without a row of the team: the
\* table holds the rows of the second and the fourth
C25_Witness ==
  /\ AllRequestsSucceeded
  /\ hits = <<0, 1, 0, 1>>
  /\ f_ret = "table"
  /\ Len(table) = 2

\* four pairs, none with a row of the team
C25_ErrorWitness ==
  /\ AllRequestsSucceeded
  /\ hits = <<0, 0, 0, 0>>
  /\ f_ret = "NBAStatsError"

\* the request index of a row's pair
IndexOfPair(r) ==
  (CatCode(r.general_range, f_args.general_ranges) - 1)
      * Len(f_args.shot_clock_ranges)
    + CatCode(r.shot_clock_range, f_args.shot_clock_ranges)

\* C26: the requests are sent one for each pair, general range by general
\* range and within it shot-clock range by shot-clock range in the order
\* of the arguments, each with the season and season type of the call and
\* the team id; when none failed there is one request for every pair, and
\* the rows of the table are in the order of their requests.
C26_OneRequestPerPairInOrder ==
  /\ Len(params) = Len(requests)
  /\ \A g \in 1..Len(f_args.general_ranges) :
       \A c \in 1..Len(f_args.shot_clock_ranges) :
         LET i == (g - 1) * Len(f_args.shot_clock_ranges) + c
         IN i <= Len(params) =>
              /\ params[i].GeneralRange = f_args.general_ranges[g]
              /\ params[i].ShotClockRange = f_args.shot_clock_ranges[c]
              /\ params[i].Season = f_args.season
              /\ params[i].SeasonType = f_args.season_type
              /\ params[i].TeamID = TEAM_ID
  /\ Len(params) <= Len(f_args.general_ranges) * Len(f_args.shot_clock_ranges)
  /\ AllRequestsSucceeded =>
       /\ Len(params) = Len(f_args.general_ranges) * Len(f_args.shot_clock_ranges)
       /\ \A a, b \in 1..Len(table) :
            a < b => IndexOfPair(table[a]) <= IndexOfPair(table[b])

\* two general ranges and two shot-clock ranges of a Playoffs call: four
\* requests, each with rows of the team
C26_Witness ==
  /\ AllRequestsSucceeded
  /\ f_args.season_type = "Playoffs"
  /\ Len(params) = 4
  /\ params[2].GeneralRange = "Overall"
  /\ params[2].ShotClockRange = "22-18 Very Early"
  /\ params[3].GeneralRange = "Catch and Shoot"
  /\ params[3].ShotClockRange = "24-22"
  /\ Len(table) = 4

(***************************************************************************)
(* scrape_with_selenium: the browser sessions                              *)
(***************************************************************************)
\* the places of main outside a call of scrape_with_selenium
OutsideSelenium ==
  pc \in {"idle", "load", "api", "check", "sleep", "concat", "done",
          "probed", "crashed"}

\* C28: at most one browser session is open at any time; a session is open
\* only inside the call of scrape_with_selenium that opened it, so none is
\* open after the call returned or raised, when main starts the next
\* partition, or when main ends.
C28_SessionsClosedOnReturn ==
  /\ sessions \in {0, 1}
  /\ sessions = 1 <=> driver = "open"
  /\ OutsideSelenium => sessions = 0

\* in the second partition the browser was opened, the second strategy
\* returned a frame and the session is closed when main goes on
C28_Witness ==
  /\ pc = "check"
  /\ idx = 2
  /\ tried = <<1, 2>>
  /\ driver = "closed"
  /\ sessions = 0
  /\ outcome[1] # "pending"

(***************************************************************************)
(* The delay between requests                                              *)
(***************************************************************************)
\* C27: in the loop over the teams and in the loop over the pairs, a
\* request that follows an earlier one of the same loop is sent only after
\* a delay since that earlier one, whether it succeeded or failed.
C27_DelayBetweenAttempts ==
  [][ /\ (x_idx' = x_idx + 1 /\ x_idx > 1) => x_slept
      /\ (Len(requests') = Len(requests) + 1 /\ Len(requests) >= 1) => f_slept
    ]_vars

(***************************************************************************)
(* The labels of the scraper and the categories of the loader              *)
(***************************************************************************)
Members(s) == { s[i] : i \in 1..Len(s) }

\* the counts get_team_data sums, by the column of the sum
SummedCounts ==
  { <<"FGM", "TOTAL_FGM">>, <<"FGA", "TOTAL_FGA">>, <<"FG3M", "TOTAL_FG3M">>,
    <<"FG3A", "TOTAL_FG3A">>, <<"FG2M", "TOTAL_FG2M">>,
    <<"FG2A", "TOTAL_FG2A">>, <<"POINTS", "TOTAL_POINTS">>,
    <<"GP", "TOTAL_GP">> }

HasTeam(r) == r.PLAYER_LAST_TEAM_ABBREVIATION # NoTeam

\* every row of the file has one of the labels the scraper writes
ScrapedFile == \A i \in 1..Len(csv) : csv[i].SHOT_CLOCK_RANGE \in Members(SHOT_CLOCK_RANGES)

\* C30: every label the scraper writes is a category of the loader and a
\* member of the dashboard's SHOT_CLOCK_ORDER, and a row with such a label
\* keeps it on load; the sum of each summed count over the groups of
\* get_team_data is its sum over the loaded rows that have a team and a
\* label of the enumeration, which for a scraped file are all the rows
\* that have a team; a row with another label is in no group.
C30_LabelsWithinEnumeration ==
  /\ Members(SHOT_CLOCK_RANGES) \subseteq Members(shot_clock_order)
  /\ Members(SHOT_CLOCK_RANGES) \subseteq Members(SHOT_CLOCK_ORDER)
  /\ t_pc = "shown" =>
       /\ \A i \in 1..Len(csv) :
            csv[i].SHOT_CLOCK_RANGE \in Members(SHOT_CLOCK_RANGES)
              => loaded[i].SHOT_CLOCK_RANGE = csv[i].SHOT_CLOCK_RANGE
       /\ \A i \in 1..Len(csv) :
            csv[i].SHOT_CLOCK_RANGE \notin Members(shot_clock_order)
              => /\ loaded[i].SHOT_CLOCK_RANGE = NaNCategory
                 /\ \A g \in 1..Len(team_data) :
                      team_data[g].SHOT_CLOCK_RANGE # csv[i].SHOT_CLOCK_RANGE
       /\ \A c \in SummedCounts :
            /\ Sum(Col(team_data, c[2])) =
                 Sum(Col(SelectSeq(loaded,
                           LAMBDA r : HasTeam(r) /\ r.SHOT_CLOCK_RANGE # NaNCategory),
                         c[1]))
            /\ ScrapedFile =>
                 Sum(Col(team_data, c[2])) = Sum(Col(SelectSeq(loaded, HasTeam), c[1]))

\* a scraped file of three rows, one of them without a team: the groups
\* hold the attempts of the two others
C30_Witness ==
  /\ t_pc = "shown"
  /\ ScrapedFile
  /\ Len(csv) = 3
  /\ \E i \in 1..3 : ~HasTeam(loaded[i])
  /\ Len(team_data) = 2
  /\ Sum(Col(team_data, "TOTAL_FGA")) = Whole(15)

\* a file with a row of a label outside the enumeration and a row of one
\* inside it: one group
C30_OutsideWitness ==
  /\ t_pc = "shown"
  /\ Len(csv) = 2
  /\ csv[1].SHOT_CLOCK_RANGE = "ShotClock Off"
  /\ Len(team_data) = 1
  /\ Sum(Col(team_data, "TOTAL_FGA")) = Whole(10)

====
